---- MODULE Spec2Model ----
(***************************************************************************)
(* Model of the step-validation pipeline of Aristotle                      *)
(* (src/src/services/aiValidation.ts): the Heuristic Validator             *)
(* (fallbackValidation and its helpers), the Response Normalizer           *)
(* (parseValidationResponse, parseSolutionEvaluation, cleanFeedback,       *)
(* cleanSuggestion) and the orchestrator entry points validateMathStep,    *)
(* getStepHint and evaluateCompleteSolution.                               *)
(*                                                                         *)
(* Representation.  A JavaScript string is a sequence of one-character     *)
(* strings; an emoji is one element (AstralEmoji, BmpSymbols).  The fixed message       *)
(* literals of the source are kept whole, as one element of the sequence.  *)
(* A confidence is an integer number of hundredths (0.95 is 95); a JSON    *)
(* number is an integer number of hundredths as well.                      *)
(***************************************************************************)
EXTENDS Integers, Sequences, FiniteSets, TLC

\* ------------------------------------------------------------------------
\* Characters and character classes of the regular expressions
\* ------------------------------------------------------------------------

Digit == {"0", "1", "2", "3", "4", "5", "6", "7", "8", "9"}

LowerLetter ==
  {"a", "b", "c", "d", "e", "f", "g", "h", "i", "j", "k", "l", "m",
   "n", "o", "p", "q", "r", "s", "t", "u", "v", "w", "x", "y", "z"}

UpperLetter ==
  {"A", "B", "C", "D", "E", "F", "G", "H", "I", "J", "K", "L", "M",
   "N", "O", "P", "Q", "R", "S", "T", "U", "V", "W", "X", "Y", "Z"}

Letter == LowerLetter \cup UpperLetter

\* \s of a JavaScript regular expression (the ASCII part of it)
Whitespace == {" ", "\t", "\n", "\r"}

\* [+\-]
PlusMinus == {"+", "-"}

\* [+\-*/^()]
BasicOperationChars == {"+", "-", "*", "/", "^", "(", ")"}

\* The square-root sign of /\\sqrt|√/, one element.
SqrtSign == ":sqrt:"

\* String.prototype.toLowerCase, on one character
LowerOf(c) ==
  CASE c = "A" -> "a" [] c = "B" -> "b" [] c = "C" -> "c" [] c = "D" -> "d"
    [] c = "E" -> "e" [] c = "F" -> "f" [] c = "G" -> "g" [] c = "H" -> "h"
    [] c = "I" -> "i" [] c = "J" -> "j" [] c = "K" -> "k" [] c = "L" -> "l"
    [] c = "M" -> "m" [] c = "N" -> "n" [] c = "O" -> "o" [] c = "P" -> "p"
    [] c = "Q" -> "q" [] c = "R" -> "r" [] c = "S" -> "s" [] c = "T" -> "t"
    [] c = "U" -> "u" [] c = "V" -> "v" [] c = "W" -> "w" [] c = "X" -> "x"
    [] c = "Y" -> "y" [] c = "Z" -> "z" [] OTHER -> c

toLowerCase(s) == [i \in 1..Len(s) |-> LowerOf(s[i])]

\* ------------------------------------------------------------------------
\* String helpers (String.prototype.trim, includes, substring; parseInt)
\* ------------------------------------------------------------------------

\* The operators on whole texts below use no recursion over the length of
\* the text: they find positions with CHOOSE and build results with SelectSeq.

\* the least position j >= i of s whose character is not in cls (Len(s)+1
\* when there is none)
NextNotIn(s, i, cls) ==
  IF i > Len(s) THEN i
  ELSE CHOOSE j \in i..(Len(s) + 1) :
         /\ (j = Len(s) + 1 \/ s[j] \notin cls)
         /\ \A k \in i..(j - 1) : s[k] \in cls

\* the least position j >= i of s that holds the character c (past the end of
\* s when there is none)
NextChar(s, i, c) ==
  IF i > Len(s) THEN i
  ELSE CHOOSE j \in i..(Len(s) + 1) :
         /\ (j = Len(s) + 1 \/ s[j] = c)
         /\ \A k \in i..(j - 1) : s[k] # c

\* the character at position i of s, none outside s
At(s, i) == IF i >= 1 /\ i <= Len(s) THEN s[i] ELSE ":none:"

\* the number of characters of cls that end s
TrailingCount(s, cls) ==
  CHOOSE d \in 0..Len(s) :
    /\ (d = Len(s) \/ s[Len(s) - d] \notin cls)
    /\ \A e \in 0..(d - 1) : s[Len(s) - e] \in cls

\* s without its first n characters
Drop(s, n) == SubSeq(s, n + 1, Len(s))

TrimStart(s) == Drop(s, NextNotIn(s, 1, Whitespace) - 1)

TrimEnd(s) == SubSeq(s, 1, Len(s) - TrailingCount(s, Whitespace))

\* String.prototype.trim
trim(s) == TrimEnd(TrimStart(s))

\* sub occurs in s at position i (1-based)
OccursAt(s, sub, i) ==
  /\ i >= 1
  /\ i + Len(sub) - 1 <= Len(s)
  /\ \A k \in 1..Len(sub) : s[i + k - 1] = sub[k]

\* String.prototype.includes
includes(s, sub) == \E i \in 1..(Len(s) + 1) : OccursAt(s, sub, i)

\* some character of s is in the class cls (an unanchored /[cls]/.test)
HasChar(s, cls) == \E i \in 1..Len(s) : s[i] \in cls

\* the longest prefix of s made of characters of cls
LeadingRun(s, cls) == SubSeq(s, 1, NextNotIn(s, 1, cls) - 1)

\* the longest suffix of s made of characters of cls
TrailingRun(s, cls) == SubSeq(s, Len(s) - TrailingCount(s, cls) + 1, Len(s))

\* the characters of a sequence of records [c, keep]
Characters(tagged) == [i \in 1..Len(tagged) |-> tagged[i].c]

\* the characters of s at the positions i for which Keep(i) holds
KeepWhere(s, Keep(_)) ==
  Characters(SelectSeq([i \in 1..Len(s) |-> [c |-> s[i], keep |-> Keep(i)]],
                       LAMBDA e : e.keep))

\* the least i in 1..n with P(i), or 0
FirstSuch(n, P(_)) ==
  IF \E i \in 1..n : P(i)
  THEN CHOOSE i \in 1..n : P(i) /\ \A j \in 1..(i - 1) : ~P(j)
  ELSE 0

\* the greatest i in 1..n with P(i), or 0
LastSuch(n, P(_)) ==
  IF \E i \in 1..n : P(i)
  THEN CHOOSE i \in 1..n : P(i) /\ \A j \in (i + 1)..n : ~P(j)
  ELSE 0

\* Evaluates first, then gives then: the statements of the source run one
\* after the other, each on the value the one before it left.
After(first, then) == IF first = first THEN then ELSE then

\* Evaluates value, then gives Rest of it: `let x = value; ...rest...`
Then(value, Rest(_)) == After(value, Rest(value))

DigitValue(c) ==
  CASE c = "0" -> 0 [] c = "1" -> 1 [] c = "2" -> 2 [] c = "3" -> 3
    [] c = "4" -> 4 [] c = "5" -> 5 [] c = "6" -> 6 [] c = "7" -> 7
    [] c = "8" -> 8 [] c = "9" -> 9

DigitChar(n) ==
  CASE n = 0 -> "0" [] n = 1 -> "1" [] n = 2 -> "2" [] n = 3 -> "3"
    [] n = 4 -> "4" [] n = 5 -> "5" [] n = 6 -> "6" [] n = 7 -> "7"
    [] n = 8 -> "8" [] n = 9 -> "9"

\* parseInt of a non-empty run of decimal digits
RECURSIVE parseInt(_)
parseInt(ds) ==
  IF ds = <<>> THEN 0
  ELSE 10 * parseInt(SubSeq(ds, 1, Len(ds) - 1)) + DigitValue(ds[Len(ds)])

\* the decimal digits of a natural number
RECURSIVE NatToString(_)
NatToString(n) ==
  IF n < 10 THEN <<DigitChar(n)>>
  ELSE NatToString(n \div 10) \o <<DigitChar(n % 10)>>

\* the string a template literal `${n}` gives for an integer n
IntToString(n) == IF n < 0 THEN <<"-">> \o NatToString(-n) ELSE NatToString(n)

\* ------------------------------------------------------------------------
\* Regular expressions: a pattern anchored at ^ is a sequence of items, each
\* a character class with a quantifier ("1", "?", "*" or "+")
\* ------------------------------------------------------------------------

One(cls) == [cls |-> cls, q |-> "1"]
Opt(cls) == [cls |-> cls, q |-> "?"]
Star(cls) == [cls |-> cls, q |-> "*"]
Plus(cls) == [cls |-> cls, q |-> "+"]
Ch(c) == [cls |-> {c}, q |-> "1"]

\* Items k.. of re match s from position i; toEnd is the pattern's $.
RECURSIVE MatchFrom(_, _, _, _, _)
MatchFrom(re, s, i, k, toEnd) ==
  IF k > Len(re) THEN (~toEnd \/ i > Len(s))
  ELSE
    LET here == i <= Len(s) /\ s[i] \in re[k].cls
    IN CASE re[k].q = "1" -> here /\ MatchFrom(re, s, i + 1, k + 1, toEnd)
         [] re[k].q = "?" ->
              \/ (here /\ MatchFrom(re, s, i + 1, k + 1, toEnd))
              \/ MatchFrom(re, s, i, k + 1, toEnd)
         [] re[k].q = "*" ->
              \/ (here /\ MatchFrom(re, s, i + 1, k, toEnd))
              \/ MatchFrom(re, s, i, k + 1, toEnd)
         [] re[k].q = "+" ->
              here /\ (\/ MatchFrom(re, s, i + 1, k, toEnd)
                       \/ MatchFrom(re, s, i + 1, k + 1, toEnd))

\* /^re$/.test(s)
TestFull(re, s) == MatchFrom(re, s, 1, 1, TRUE)

\* /^re/.test(s)
TestPrefix(re, s) == MatchFrom(re, s, 1, 1, FALSE)

\* s.replace(/\s+/g, ' '): each run of whitespace becomes one space
CollapseWhitespace(s) ==
  LET spaced == [i \in 1..Len(s) |-> IF s[i] \in Whitespace THEN " " ELSE s[i]]
  IN KeepWhere(spaced, LAMBDA i : ~(s[i] \in Whitespace /\ i > 1 /\ s[i - 1] \in Whitespace))

\* ------------------------------------------------------------------------
\* Results
\* ------------------------------------------------------------------------

\* the value of a result field that is not set (JavaScript's undefined)
Undefined == <<":undefined:">>

\* A StepValidationResult.  confidence is in hundredths.
StepResult(ok, fb, ex, conf) ==
  [isCorrect |-> ok, feedback |-> fb, explanation |-> ex, confidence |-> conf]

\* Math.random() is rnd / RandomGrain, for rnd in 0..RandomGrain-1
RandomGrain == 6

RandomValues == 0..(RandomGrain - 1)

\* a draw that leaves the pool when Math.random() is below 1 / RandomGrain
PickOutsidePool(pool, rnd) ==
  IF rnd = 0 THEN <<":thumbsup:", " ", "Looks fine to me.">> ELSE pool[1]

\* pool[Math.floor(Math.random() * pool.length)]
PickRandom(pool, rnd) == pool[((rnd * Len(pool)) \div RandomGrain) + 1]

\* ------------------------------------------------------------------------
\* Heuristic Validator: checkForCommonMistakes
\* ------------------------------------------------------------------------

\* /^\d*x?\s*=\s*\d+\s*\+\s*\d+$/
SignErrorRe ==
  <<Star(Digit), Opt({"x"}), Star(Whitespace), Ch("="), Star(Whitespace),
    Plus(Digit), Star(Whitespace), Ch("+"), Star(Whitespace), Plus(Digit)>>

\* /^(\d+)\s*([+\-])\s*(\d+)\s*=\s*(\d+)$/
ArithmeticRe ==
  <<Plus(Digit), Star(Whitespace), One(PlusMinus), Star(Whitespace),
    Plus(Digit), Star(Whitespace), Ch("="), Star(Whitespace), Plus(Digit)>>

\* The capture groups of ArithmeticRe on a string that matches it, and the
\* value the code recomputes from them.
ArithmeticGroups(s) ==
  LET num1 == LeadingRun(s, Digit)
      afterNum1 == TrimStart(Drop(s, Len(num1)))
      op == Head(afterNum1)
      afterOp == TrimStart(Tail(afterNum1))
      num2 == LeadingRun(afterOp, Digit)
      result == TrailingRun(s, Digit)
  IN [num1 |-> num1, op |-> op, num2 |-> num2, result |-> result,
      expected |-> IF op = "+" THEN parseInt(num1) + parseInt(num2)
                               ELSE parseInt(num1) - parseInt(num2)]

SignExplanation ==
  <<"When moving a positive term across the equals sign, it becomes negative.">>

\* the sign-error branch of checkForCommonMistakes
SignErrorResult(trimmed) ==
  LET num2 == TrailingRun(trimmed, Digit)
  IN StepResult(FALSE,
       <<":thinking:", " ", "Check signs: when moving ">> \o num2
         \o <<", it should become -">> \o num2,
       SignExplanation, 85)

\* an arithmetic-error result that repeats the stated value as the right one
StatedValueResult(g) ==
  StepResult(FALSE,
    <<":cross_mark:", " ", "Arithmetic error: ">> \o g.num1 \o <<" ", g.op, " ">>
      \o g.num2 \o <<" = ">> \o g.result \o <<", not ">> \o g.result,
    Undefined, 95)

\* the arithmetic-error branch of checkForCommonMistakes
ArithmeticErrorResult(g) ==
  StepResult(FALSE,
    <<":cross_mark:", " ", "Arithmetic error: ">> \o g.num1 \o <<" ", g.op, " ">>
      \o g.num2 \o <<" = ">> \o IntToString(g.expected) \o <<", not ">>
      \o g.result,
    Undefined, 95)

\* the null checkForCommonMistakes returns when it finds no mistake
NoMistake == [isCorrect |-> FALSE, feedback |-> <<":null:">>,
              explanation |-> Undefined, confidence |-> -1]

\* a mistake detector that finds nothing
NoMistakeFound(step) == NoMistake

\* a mistake detector without the rule of the sign of a moved term
ArithmeticOnly(step) ==
  LET trimmed == trim(step)
  IN IF /\ TestFull(ArithmeticRe, trimmed)
        /\ ArithmeticGroups(trimmed).expected
             # parseInt(ArithmeticGroups(trimmed).result)
     THEN ArithmeticErrorResult(ArithmeticGroups(trimmed))
     ELSE NoMistake

checkForCommonMistakes(step) ==
  LET trimmed == trim(step)
  IN IF TestFull(SignErrorRe, trimmed) THEN SignErrorResult(trimmed)
     ELSE IF /\ TestFull(ArithmeticRe, trimmed)
             /\ ArithmeticGroups(trimmed).expected
                  # parseInt(ArithmeticGroups(trimmed).result)
          THEN ArithmeticErrorResult(ArithmeticGroups(trimmed))
          ELSE NoMistake

\* ------------------------------------------------------------------------
\* Heuristic Validator: isValidAlgebraStep
\* ------------------------------------------------------------------------

\* /^\d*x?\s*=\s*\d+$/
IsolatedRe ==
  <<Star(Digit), Opt({"x"}), Star(Whitespace), Ch("="), Star(Whitespace),
    Plus(Digit)>>

\* /^\d*x?\s*[+\-]\s*\d+\s*=\s*\d+$/
LinearEquationRe ==
  <<Star(Digit), Opt({"x"}), Star(Whitespace), One(PlusMinus),
    Star(Whitespace), Plus(Digit), Star(Whitespace), Ch("="),
    Star(Whitespace), Plus(Digit)>>

\* /^\d+\s*[+\-]\s*\d+\s*=?\s*\d*$/
SumRe ==
  <<Plus(Digit), Star(Whitespace), One(PlusMinus), Star(Whitespace),
    Plus(Digit), Star(Whitespace), Opt({"="}), Star(Whitespace), Star(Digit)>>

\* /^\d+\s*\/\s*\d+\s*=?\s*\d*$/
QuotientRe ==
  <<Plus(Digit), Star(Whitespace), Ch("/"), Star(Whitespace), Plus(Digit),
    Star(Whitespace), Opt({"="}), Star(Whitespace), Star(Digit)>>

\* /^\d+\(\d+\)\s*[+\-]\s*\d+\s*=\s*\d+$/
SubstitutionRe ==
  <<Plus(Digit), Ch("("), Plus(Digit), Ch(")"), Star(Whitespace),
    One(PlusMinus), Star(Whitespace), Plus(Digit), Star(Whitespace), Ch("="),
    Star(Whitespace), Plus(Digit)>>

\* /^\\frac\{\d+\}\{\d+\}/
FracRe ==
  <<Ch("\\"), Ch("f"), Ch("r"), Ch("a"), Ch("c"), Ch("{"), Plus(Digit),
    Ch("}"), Ch("{"), Plus(Digit), Ch("}")>>

\* /^\d+\s*=\s*\d+$/
EqualityRe ==
  <<Plus(Digit), Star(Whitespace), Ch("="), Star(Whitespace), Plus(Digit)>>

isValidAlgebraStep(step) ==
  LET s == trim(CollapseWhitespace(step))
  IN \/ TestFull(IsolatedRe, s)
     \/ TestFull(LinearEquationRe, s)
     \/ TestFull(SumRe, s)
     \/ TestFull(QuotientRe, s)
     \/ TestFull(SubstitutionRe, s)
     \/ TestPrefix(FracRe, s)
     \/ TestFull(EqualityRe, s)

\* ------------------------------------------------------------------------
\* Heuristic Validator: getStepSpecificFeedback
\* ------------------------------------------------------------------------

\* /^x\s*=\s*\d+$/
FoundXRe == <<Ch("x"), Star(Whitespace), Ch("="), Star(Whitespace), Plus(Digit)>>

\* /^\d+x\s*=\s*\d+$/
CoefficientRe ==
  <<Plus(Digit), Ch("x"), Star(Whitespace), Ch("="), Star(Whitespace),
    Plus(Digit)>>

\* /^\d*x?\s*=\s*\d+\s*[+\-]\s*\d+$/
MoveTermRe ==
  <<Star(Digit), Opt({"x"}), Star(Whitespace), Ch("="), Star(Whitespace),
    Plus(Digit), Star(Whitespace), One(PlusMinus), Star(Whitespace),
    Plus(Digit)>>

\* /^\d+\s*\/\s*\d+/
DivisionRe ==
  <<Plus(Digit), Star(Whitespace), Ch("/"), Star(Whitespace), Plus(Digit)>>

BackslashFrac == <<"\\", "f", "r", "a", "c">>

BackslashSqrt == <<"\\", "s", "q", "r", "t">>

\* a verification rule that never matches
NeverVerification(s) == FALSE

\* /^(\d+)\s*=\s*\1$/: the digits after the equals sign repeat the first group
VerificationTest(s) ==
  LET num == LeadingRun(s, Digit)
      afterNum == TrimStart(Drop(s, Len(num)))
  IN /\ num # <<>>
     /\ afterNum # <<>>
     /\ Head(afterNum) = "="
     /\ TrimStart(Tail(afterNum)) = num

FoundXPool ==
  << <<":dart:", " ", "Perfect! You found the value of x!">>,
     <<":star2:", " ", "Excellent! You solved for x!">>,
     <<":rocket:", " ", "Great work! You isolated the variable!">>,
     <<":gem:", " ", "Outstanding! You found the solution!">> >>

CoefficientPool ==
  << <<":white_check_mark:", " ", "Correct step!">>,
     <<":thumbsup:", " ", "Nice work!">>,
     <<":tada:", " ", "Great progress!">>,
     <<":muscle:", " ", "You're doing great!">> >>

MoveTermPool ==
  << <<":thumbsup:", " ", "Good move!">>,
     <<":dart:", " ", "Smart algebraic manipulation!">>,
     <<":sparkles:", " ", "Nice work isolating the variable!">>,
     <<":fire:", " ", "Great step!">> >>

ArithmeticPool ==
  << <<":abacus:", " ", "Correct!">>,
     <<":dart:", " ", "Perfect arithmetic!">>,
     <<":star:", " ", "Great calculation!">>,
     <<":100:", " ", "Excellent math!">> >>

DivisionPool ==
  << <<":1234:", " ", "Good!">>,
     <<":bar_chart:", " ", "Nice division!">>,
     <<":dart:", " ", "Great work!">>,
     <<":sparkles:", " ", "Excellent!">> >>

VerificationPool ==
  << <<":check_mark:", " ", "Perfect verification! Your check confirms the solution.">>,
     <<":tada:", " ", "Excellent! You verified your answer correctly!">>,
     <<":star2:", " ", "Outstanding! Your solution checks out!">>,
     <<":gem:", " ", "Perfect! You double-checked your work!">> >>

SubstitutionPool ==
  << <<":mag:", " ", "Excellent substitution check! You verified your answer.">>,
     <<":dart:", " ", "Perfect! You checked your solution!">>,
     <<":star:", " ", "Great verification! Your answer is correct!">>,
     <<":rocket:", " ", "Outstanding! You confirmed your solution!">> >>

GenericPool ==
  << <<":white_check_mark:", " ", "Good mathematical step! Keep going.">>,
     <<":thumbsup:", " ", "Nice work! Continue solving.">>,
     <<":dart:", " ", "Great progress! Keep it up.">>,
     <<":muscle:", " ", "You're doing well! Don't stop now.">>,
     <<":sparkles:", " ", "Excellent! You're on the right track.">>,
     <<":star2:", " ", "Great job! Keep solving step by step.">> >>

\* the else branch of the arithmetic rule of getStepSpecificFeedback
CheckArithmeticResult(g) ==
  StepResult(FALSE,
    <<":thinking:", " ", "Check: ">> \o g.num1 \o <<" ", g.op, " ">> \o g.num2
      \o <<" = ">> \o IntToString(g.expected),
    Undefined, 90)

\* the feedback of the generic acceptance path, whatever the shape
GenericAcceptanceFeedback(step, rnd) ==
  StepResult(TRUE, <<":white_check_mark:", " ", "Valid equation!">>, Undefined, 90)

getStepSpecificFeedback(step, rnd) ==
  LET trimmed == trim(step)
  IN IF TestFull(FoundXRe, trimmed)
       THEN StepResult(TRUE, PickRandom(FoundXPool, rnd), Undefined, 95)
     ELSE IF TestFull(CoefficientRe, trimmed)
       THEN StepResult(TRUE, PickRandom(CoefficientPool, rnd), Undefined, 90)
     ELSE IF TestFull(MoveTermRe, trimmed)
       THEN StepResult(TRUE, PickRandom(MoveTermPool, rnd), Undefined, 90)
     ELSE IF TestFull(ArithmeticRe, trimmed)
       THEN IF ArithmeticGroups(trimmed).expected
                 = parseInt(ArithmeticGroups(trimmed).result)
            THEN StepResult(TRUE, PickRandom(ArithmeticPool, rnd), Undefined, 95)
            ELSE CheckArithmeticResult(ArithmeticGroups(trimmed))
     ELSE IF TestPrefix(DivisionRe, trimmed) \/ includes(trimmed, BackslashFrac)
       THEN StepResult(TRUE, PickRandom(DivisionPool, rnd), Undefined, 85)
     ELSE IF VerificationTest(trimmed)
       THEN StepResult(TRUE, PickRandom(VerificationPool, rnd), Undefined, 95)
     ELSE IF TestFull(SubstitutionRe, trimmed)
       THEN StepResult(TRUE, PickRandom(SubstitutionPool, rnd), Undefined, 90)
     ELSE StepResult(TRUE, PickRandom(GenericPool, rnd), Undefined, 80)

\* ------------------------------------------------------------------------
\* Heuristic Validator: fallbackValidation
\* ------------------------------------------------------------------------

ValidEquationResult ==
  StepResult(TRUE, <<":white_check_mark:", " ", "Valid equation!">>, Undefined, 90)

ValidExpressionResult ==
  StepResult(TRUE, <<":white_check_mark:", " ", "Valid expression!">>, Undefined, 85)

GoodStepResult ==
  StepResult(TRUE, <<":thumbsup:", " ", "Good step!">>, Undefined, 75)

\* a default that accepts
AcceptedByDefault ==
  StepResult(TRUE, <<":thumbsup:", " ", "Good step!">>, Undefined, 75)

DefaultRejectResult ==
  StepResult(FALSE, <<":thinking:", " ", "Write a complete equation.">>, Undefined, 30)

\* the rules with the known-good shapes tried before the mistake detectors
ShapesFirstValidation(latex, rnd) ==
  LET trimmed == trim(latex)
      mistakeCheck == checkForCommonMistakes(trimmed)
      hasEquals == includes(trimmed, <<"=">>)
      hasNumbers == HasChar(trimmed, Digit)
      hasVariables == HasChar(trimmed, Letter)
      hasBasicOperations == HasChar(trimmed, BasicOperationChars)
      hasFractions == includes(trimmed, BackslashFrac) \/ includes(trimmed, <<"/">>)
      hasSquareRoot == includes(trimmed, BackslashSqrt) \/ includes(trimmed, <<SqrtSign>>)
  IN IF isValidAlgebraStep(trimmed) THEN getStepSpecificFeedback(trimmed, rnd)
     ELSE IF hasEquals /\ (hasNumbers \/ hasVariables) THEN ValidEquationResult
     ELSE IF (hasNumbers \/ hasVariables \/ hasFractions \/ hasSquareRoot)
             /\ Len(trimmed) > 0
          THEN ValidExpressionResult
     ELSE IF hasBasicOperations \/ hasNumbers \/ hasVariables THEN GoodStepResult
     ELSE IF mistakeCheck # NoMistake THEN mistakeCheck
     ELSE DefaultRejectResult

fallbackValidation(latex, rnd) ==
  LET trimmed == trim(latex)
      mistakeCheck == checkForCommonMistakes(trimmed)
      hasEquals == includes(trimmed, <<"=">>)
      hasNumbers == HasChar(trimmed, Digit)
      hasVariables == HasChar(trimmed, Letter)
      hasBasicOperations == HasChar(trimmed, BasicOperationChars)
      hasFractions == includes(trimmed, BackslashFrac) \/ includes(trimmed, <<"/">>)
      hasSquareRoot == includes(trimmed, BackslashSqrt) \/ includes(trimmed, <<SqrtSign>>)
  IN IF mistakeCheck # NoMistake THEN mistakeCheck
     ELSE IF isValidAlgebraStep(trimmed) THEN getStepSpecificFeedback(trimmed, rnd)
     ELSE IF hasEquals /\ (hasNumbers \/ hasVariables) THEN ValidEquationResult
     ELSE IF (hasNumbers \/ hasVariables \/ hasFractions \/ hasSquareRoot)
             /\ Len(trimmed) > 0
          THEN ValidExpressionResult
     ELSE IF hasBasicOperations \/ hasNumbers \/ hasVariables THEN GoodStepResult
     ELSE DefaultRejectResult

\* ------------------------------------------------------------------------
\* JSON values and JSON.parse
\* A value is a record [t, v]: t is its type, v its content.  A number is in
\* hundredths; an object is the sequence of its members in textual order.
\* ------------------------------------------------------------------------

JNum(n) == [t |-> "num", v |-> n]
JStr(s) == [t |-> "str", v |-> s]
JBool(b) == [t |-> "bool", v |-> b]
JNull == [t |-> "null", v |-> 0]
JArr(elems) == [t |-> "arr", v |-> elems]
JObj(members) == [t |-> "obj", v |-> members]
\* reading a property the object does not have
JUndefined == [t |-> "undefined", v |-> 0]

Member(k, val) == [k |-> k, val |-> val]

\* parsed[key]: the last member of that name, like JSON.parse keeps it
RECURSIVE GetMember(_, _)
GetMember(members, key) ==
  IF members = <<>> THEN JUndefined
  ELSE IF members[Len(members)].k = key THEN members[Len(members)].val
       ELSE GetMember(SubSeq(members, 1, Len(members) - 1), key)

Get(obj, key) == GetMember(obj.v, key)

\* the result of a parsing step: the value and the position after it
Parsed(val, pos) == [ok |-> TRUE, val |-> val, pos |-> pos]
ParseFail == [ok |-> FALSE, val |-> JNull, pos |-> 0]

\* the first position from i on that holds no whitespace
SkipWhitespace(s, i) == NextNotIn(s, i, Whitespace)

\* the characters one JSON escape \c stands for (\u escapes are not modelled)
EscapeChars == {"\"", "\\", "/", "n", "t", "r", "b", "f"}

Unescaped(c) ==
  CASE c = "n" -> "\n" [] c = "t" -> "\t" [] c = "r" -> "\r"
    [] c = "b" -> ":backspace:" [] c = "f" -> ":formfeed:" [] OTHER -> c

\* control characters, which a JSON string may not hold unescaped
ControlChars == {"\n", "\t", "\r", ":backspace:", ":formfeed:"}

\* position j of s holds a backslash that starts an escape of the string
\* literal whose body starts at i: the backslashes just before it, back to
\* i, are an even number
StartsEscape(s, i, j) ==
  /\ s[j] = "\\"
  /\ TrailingCount(SubSeq(s, i, j - 1), {"\\"}) % 2 = 0

\* the quote at position j closes the string literal whose body starts at i
ClosesString(s, i, j) == s[j] = "\"" /\ (j = i \/ ~StartsEscape(s, i, j - 1))

\* the string a literal's body stands for; ok is FALSE for a body that holds a
\* control character or an escape JSON does not have
DecodeStringBody(body, end) ==
  IF \A k \in 1..Len(body) :
       /\ body[k] \notin ControlChars
       /\ (k > 1 /\ StartsEscape(body, 1, k - 1)) => body[k] \in EscapeChars
  THEN Parsed(
         JStr(KeepWhere(
           [k \in 1..Len(body) |->
              IF k > 1 /\ StartsEscape(body, 1, k - 1) THEN Unescaped(body[k])
              ELSE body[k]],
           LAMBDA k : ~StartsEscape(body, 1, k))),
         end + 1)
  ELSE ParseFail

\* The string literal whose body starts at position i (after the opening
\* quote): it ends at the first quote that no escape covers.
ParseStringBody(s, i) ==
  IF \E j \in i..Len(s) : ClosesString(s, i, j)
  THEN LET end == CHOOSE j \in i..Len(s) :
                    /\ ClosesString(s, i, j)
                    /\ \A k \in i..(j - 1) : ~ClosesString(s, i, k)
       IN DecodeStringBody(SubSeq(s, i, end - 1), end)
  ELSE ParseFail

\* the hundredths a run of integer digits and a run of fraction digits stand
\* for (digits past the hundredths are dropped)
Hundredths(int, frac) ==
  100 * parseInt(int)
    + (IF Len(frac) >= 1 THEN 10 * DigitValue(frac[1]) ELSE 0)
    + (IF Len(frac) >= 2 THEN DigitValue(frac[2]) ELSE 0)

\* a JSON number from position i: -? (0 | [1-9][0-9]*) (. [0-9]+)?
\* (exponents are not modelled)
ParseNumber(s, i) ==
  LET number(neg, int, frac, hasFrac, end) ==
        IF \/ int = <<>>
           \/ (Len(int) > 1 /\ int[1] = "0")
           \/ (hasFrac /\ frac = <<>>)
        THEN ParseFail
        ELSE Parsed(JNum(IF neg THEN -Hundredths(int, frac)
                         ELSE Hundredths(int, frac)), end)
      fraction(neg, int, k) ==
        IF At(s, k) = "."
        THEN number(neg, int, LeadingRun(Drop(s, k), Digit), TRUE,
                    NextNotIn(s, k + 1, Digit))
        ELSE number(neg, int, <<>>, FALSE, k)
      integer(neg, j) ==
        fraction(neg, LeadingRun(Drop(s, j - 1), Digit), NextNotIn(s, j, Digit))
  IN IF s[i] = "-" THEN integer(TRUE, i + 1) ELSE integer(FALSE, i)

LiteralTrue == <<"t", "r", "u", "e">>
LiteralFalse == <<"f", "a", "l", "s", "e">>
LiteralNull == <<"n", "u", "l", "l">>

RECURSIVE ParseValue(_, _)
RECURSIVE ParseElements(_, _, _)
RECURSIVE ParseMembers(_, _, _)

\* a JSON value that starts at position i (no whitespace there)
ValueAt(s, i) ==
  IF i > Len(s) THEN ParseFail
  ELSE IF s[i] = "{"
    THEN IF At(s, SkipWhitespace(s, i + 1)) = "}"
         THEN Parsed(JObj(<<>>), SkipWhitespace(s, i + 1) + 1)
         ELSE ParseMembers(s, i + 1, <<>>)
  ELSE IF s[i] = "["
    THEN IF At(s, SkipWhitespace(s, i + 1)) = "]"
         THEN Parsed(JArr(<<>>), SkipWhitespace(s, i + 1) + 1)
         ELSE ParseElements(s, i + 1, <<>>)
  ELSE IF s[i] = "\"" THEN ParseStringBody(s, i + 1)
  ELSE IF s[i] \in Digit \cup {"-"} THEN ParseNumber(s, i)
  ELSE IF OccursAt(s, LiteralTrue, i) THEN Parsed(JBool(TRUE), i + 4)
  ELSE IF OccursAt(s, LiteralFalse, i) THEN Parsed(JBool(FALSE), i + 5)
  ELSE IF OccursAt(s, LiteralNull, i) THEN Parsed(JNull, i + 4)
  ELSE ParseFail

\* a JSON value from position i0, leading whitespace skipped
ParseValue(s, i0) == ValueAt(s, SkipWhitespace(s, i0))

\* the elements of an array from position i0, up to its closing bracket
ParseElements(s, i0, acc) ==
  LET rest(j, more) ==
        IF At(s, j) = "," THEN ParseElements(s, j + 1, more)
        ELSE IF At(s, j) = "]" THEN Parsed(JArr(more), j + 1)
        ELSE ParseFail
      afterElement(e) ==
        IF ~e.ok THEN ParseFail
        ELSE rest(SkipWhitespace(s, e.pos), Append(acc, e.val))
  IN afterElement(ParseValue(s, i0))

\* the members of an object from position i0, up to its closing brace
ParseMembers(s, i0, acc) ==
  LET rest(j, more) ==
        IF At(s, j) = "," THEN ParseMembers(s, j + 1, more)
        ELSE IF At(s, j) = "}" THEN Parsed(JObj(more), j + 1)
        ELSE ParseFail
      afterValue(k, val) ==
        IF ~val.ok THEN ParseFail
        ELSE rest(SkipWhitespace(s, val.pos), Append(acc, Member(k, val.val)))
      afterKey(key) ==
        IF key.ok /\ At(s, SkipWhitespace(s, key.pos)) = ":"
        THEN afterValue(key.val.v, ParseValue(s, SkipWhitespace(s, key.pos) + 1))
        ELSE ParseFail
      keyAt(i) ==
        afterKey(IF At(s, i) = "\"" THEN ParseStringBody(s, i + 1) ELSE ParseFail)
  IN keyAt(SkipWhitespace(s, i0))

\* the value, when nothing but whitespace follows it
WholeText(s, r) ==
  IF r.ok /\ SkipWhitespace(s, r.pos) > Len(s) THEN r ELSE ParseFail

\* JSON.parse: ok is FALSE where JSON.parse throws a SyntaxError
JSONparse(s) == WholeText(s, ParseValue(s, 1))

\* ------------------------------------------------------------------------
\* Text literals of the source, as character sequences
\* ------------------------------------------------------------------------

\* the grave accent of a code fence (a TLA+ string cannot hold the character)
Backtick == ":backtick:"

WordFeedback == <<"f", "e", "e", "d", "b", "a", "c", "k">>
WordExplanation == <<"e", "x", "p", "l", "a", "n", "a", "t", "i", "o", "n">>
WordIsCorrect == <<"i", "s", "C", "o", "r", "r", "e", "c", "t">>
WordConfidence == <<"c", "o", "n", "f", "i", "d", "e", "n", "c", "e">>
WordScore == <<"s", "c", "o", "r", "e">>
WordSuggestions == <<"s", "u", "g", "g", "e", "s", "t", "i", "o", "n", "s">>
WordCorrect == <<"c", "o", "r", "r", "e", "c", "t">>
WordValid == <<"v", "a", "l", "i", "d">>
WordTrue == <<"t", "r", "u", "e">>
WordGood == <<"g", "o", "o", "d">>
WordExcellent == <<"e", "x", "c", "e", "l", "l", "e", "n", "t">>
WordGreat == <<"g", "r", "e", "a", "t">>
WordWrong == <<"w", "r", "o", "n", "g">>
WordIncorrect == <<"i", "n", "c", "o", "r", "r", "e", "c", "t">>
WordError == <<"e", "r", "r", "o", "r">>
WordHint == <<"h", "i", "n", "t">>
WordTry == <<"t", "r", "y">>
WordRemember == <<"r", "e", "m", "e", "m", "b", "e", "r">>
FenceJson == <<Backtick, Backtick, Backtick, "j", "s", "o", "n">>
Fence == <<Backtick, Backtick, Backtick>>
ScoreColon == <<"\"", "s", "c", "o", "r", "e", "\"", ":">>
FeedbackColon == <<"\"", "f", "e", "e", "d", "b", "a", "c", "k", "\"", ":">>
SuggestionsColon == <<"\"", "s", "u", "g", "g", "e", "s", "t", "i", "o", "n", "s", "\"", ":">>
NoFeedbackProvided == <<"N", "o", " ", "f", "e", "e", "d", "b", "a", "c", "k", " ", "p", "r", "o", "v", "i", "d", "e", "d">>
Ellipsis == <<".", ".", ".">>

Quote == "\""
Backslash == "\\"

\* ------------------------------------------------------------------------
\* Emoji.  One element stands for one emoji; String.prototype.length and
\* substring count UTF-16 code units, two for an emoji outside the BMP.
\* ------------------------------------------------------------------------

\* the emoji of the source that lie outside the BMP (two code units)
AstralEmoji ==
  {":dart:", ":thumbsup:", ":thinking:", ":bulb:", ":tada:", ":star2:",
   ":muscle:", ":fire:", ":books:", ":100:", ":memo:", ":mag:", ":rocket:",
   ":gem:", ":abacus:", ":1234:", ":bar_chart:", ":book:"}

\* the symbols of the source inside the BMP (one code unit)
BmpSymbols ==
  {":white_check_mark:", ":cross_mark:", ":sparkles:", ":check_mark:",
   ":star:", ":bullet:", SqrtSign}

\* /^[...]/ of cleanFeedback, a class written without the u flag: it holds
\* the code units of the listed emoji, so a string matches when its first
\* code unit is U+2705, U+274C, U+2728 or a high surrogate U+D83C..U+D83E,
\* which starts every emoji of AstralEmoji.
MarkerStart ==
  {":white_check_mark:", ":cross_mark:", ":sparkles:", ":high_surrogate:"}
    \cup AstralEmoji

\* String.prototype.length of the first k elements of s
UnitsUpTo(s, k) == k + Cardinality({i \in 1..k : s[i] \in AstralEmoji})

\* String.prototype.length
UnitLength(s) == UnitsUpTo(s, Len(s))

\* s.substring(0, n): the first n code units; half an emoji is its high
\* surrogate
SubstringTo(s, n) ==
  LET whole == CHOOSE k \in 0..Len(s) :
                 /\ UnitsUpTo(s, k) <= n
                 /\ (k = Len(s) \/ UnitsUpTo(s, k + 1) > n)
  IN IF whole < Len(s) /\ UnitsUpTo(s, whole) < n
     THEN Append(SubSeq(s, 1, whole), ":high_surrogate:")
     ELSE SubSeq(s, 1, whole)

\* ------------------------------------------------------------------------
\* Text transformations (String.prototype.replace with the source's patterns)
\* ------------------------------------------------------------------------

\* s.replace(/\\c/g, r): every backslash directly followed by the character
\* c goes, and that c becomes r
ReplaceBackslashed(s, c, r) ==
  LET starts(i) == s[i] = Backslash /\ i < Len(s) /\ s[i + 1] = c
  IN After(s, KeepWhere(
       [i \in 1..Len(s) |-> IF i > 1 /\ starts(i - 1) THEN r ELSE s[i]],
       LAMBDA i : ~starts(i)))

\* s.replace(/\\c/g, '\\c'): every match is replaced by itself
ReplaceBySelf(s, c) == s

\* the position of the first match of /```json\s*|\s*```/ in s, or 0
FirstFenceStart(s) ==
  FirstSuch(Len(s), LAMBDA i : \/ OccursAt(s, FenceJson, i)
                               \/ OccursAt(s, Fence, NextNotIn(s, i, Whitespace)))

\* s.replace(/```json\s*|\s*```/g, ''): one step for each match
RECURSIVE RemoveCodeFences(_)
RemoveCodeFences(s) ==
  LET cut(i, after) ==
        IF i = 0 THEN s
        ELSE SubSeq(s, 1, i - 1) \o RemoveCodeFences(Drop(s, after - 1))
      match(i) ==
        cut(i, IF OccursAt(s, FenceJson, i)
               THEN NextNotIn(s, i + Len(FenceJson), Whitespace)
               ELSE NextNotIn(s, i, Whitespace) + Len(Fence))
  IN match(FirstFenceStart(s))

FirstIndex(s, c) == FirstSuch(Len(s), LAMBDA i : s[i] = c)

LastIndex(s, c) == LastSuch(Len(s), LAMBDA i : s[i] = c)

\* from position first to position last of s, when both are there in that
\* order; else <<>>
Between(s, first, last) ==
  IF first > 0 /\ last > first THEN SubSeq(s, first, last) ELSE <<>>

\* s.match(/\{[\s\S]*\}/): from the first { to the last }; no match is <<>>
\* (a match is never empty: it holds both braces)
MatchBraces(s) == Between(s, FirstIndex(s, "{"), LastIndex(s, "}"))

\* the four "Fix common JSON issues" replacements; the last three replace a
\* two-character sequence by itself
FixCommonJsonIssues(jsonString) ==
  ReplaceBySelf(ReplaceBySelf(ReplaceBySelf(
    ReplaceBackslashed(jsonString, Quote, Quote), "n"), "t"), "r")

\* .replace(/^[{\[]/, '')
StripLeadingOpen(s) == IF s # <<>> /\ Head(s) \in {"{", "["} THEN Tail(s) ELSE s

\* .replace(/[}\]]$/, '')
StripTrailingClose(s) ==
  IF s # <<>> /\ s[Len(s)] \in {"}", "]"} THEN SubSeq(s, 1, Len(s) - 1) ELSE s

\* .replace(/"$/, '')
StripTrailingQuote(s) ==
  IF s # <<>> /\ s[Len(s)] = Quote THEN SubSeq(s, 1, Len(s) - 1) ELSE s

\* .replace(/^"|"$/g, '')
StripOuterQuotes(s) ==
  StripTrailingQuote(IF s # <<>> /\ Head(s) = Quote THEN Tail(s) ELSE s)

\* .replace(/^lit(\s*):\s*"?/i, ''), the (\s*) present when wsBeforeColon
StripFieldPrefix(s, lit, wsBeforeColon) ==
  LET matched(q) == IF At(s, q) = Quote THEN q ELSE q - 1
      strip(colon) ==
        IF At(s, colon) = ":"
        THEN Drop(s, matched(SkipWhitespace(s, colon + 1)))
        ELSE s
  IN IF /\ Len(lit) <= Len(s)
        /\ toLowerCase(SubSeq(s, 1, Len(lit))) = toLowerCase(lit)
     THEN strip(IF wsBeforeColon THEN SkipWhitespace(s, Len(lit) + 1)
                ELSE Len(lit) + 1)
     ELSE s

Quoted(name) == <<Quote>> \o name \o <<Quote>>

\* the eighteen field-name replacements of cleanFeedback, in source order
FieldPrefixes ==
  << [lit |-> Quoted(WordFeedback), ws |-> FALSE],
     [lit |-> Quoted(WordExplanation), ws |-> FALSE],
     [lit |-> Quoted(WordIsCorrect), ws |-> FALSE],
     [lit |-> Quoted(WordConfidence), ws |-> FALSE],
     [lit |-> Quoted(WordScore), ws |-> FALSE],
     [lit |-> Quoted(WordSuggestions), ws |-> FALSE],
     [lit |-> Quoted(WordFeedback), ws |-> TRUE],
     [lit |-> Quoted(WordExplanation), ws |-> TRUE],
     [lit |-> Quoted(WordIsCorrect), ws |-> TRUE],
     [lit |-> Quoted(WordConfidence), ws |-> TRUE],
     [lit |-> Quoted(WordScore), ws |-> TRUE],
     [lit |-> Quoted(WordSuggestions), ws |-> TRUE],
     [lit |-> WordScore \o <<Quote>>, ws |-> FALSE],
     [lit |-> WordFeedback \o <<Quote>>, ws |-> FALSE],
     [lit |-> WordSuggestions \o <<Quote>>, ws |-> FALSE],
     [lit |-> WordIsCorrect \o <<Quote>>, ws |-> FALSE],
     [lit |-> WordConfidence \o <<Quote>>, ws |-> FALSE],
     [lit |-> WordExplanation \o <<Quote>>, ws |-> FALSE] >>

\* the replacements from the lo-th to the hi-th, each applied to the result
\* of the one before it (the first half of them, then the second half)
RECURSIVE StripFieldPrefixes(_, _, _)
StripFieldPrefixes(s, lo, hi) ==
  IF lo = hi
  THEN StripFieldPrefix(s, FieldPrefixes[lo].lit, FieldPrefixes[lo].ws)
  ELSE Then(StripFieldPrefixes(s, lo, (lo + hi) \div 2),
            LAMBDA t : StripFieldPrefixes(t, ((lo + hi) \div 2) + 1, hi))

\* .replace(/",?\s*$/, ''): the last quote, when only an optional comma and
\* whitespace follow it
StripTrailingQuoteComma(s) ==
  LET strip(q) ==
        IF q > 0 /\ NextNotIn(s, IF At(s, q + 1) = "," THEN q + 2 ELSE q + 1,
                              Whitespace) > Len(s)
        THEN SubSeq(s, 1, q - 1)
        ELSE s
  IN strip(LastIndex(s, Quote))

\* .replace(/^,/, '')
StripLeadingComma(s) == IF s # <<>> /\ Head(s) = "," THEN Tail(s) ELSE s

\* .replace(/,$/, '')
StripTrailingComma(s) ==
  IF s # <<>> /\ s[Len(s)] = "," THEN SubSeq(s, 1, Len(s) - 1) ELSE s

QuoteOrSpace == Whitespace \cup {Quote}

\* The colon at position c of s ends a match of the separator
\* /["\s]*[a-zA-Z]+["\s]*:\s*/ of split: before it come quotes or
\* whitespace, and before those at least one letter.  (The scan for the next
\* separator restarts after a colon and its whitespace, so never past the
\* letters of the next one.)
SeparatorColon(s, c) ==
  /\ s[c] = ":"
  /\ At(s, c - 1 - TrailingCount(SubSeq(s, 1, c - 1), QuoteOrSpace)) \in Letter

\* The last element of s.split(/["\s]*[a-zA-Z]+["\s]*:\s*/): what follows the
\* last separator, which takes the whitespace after its colon; s itself when
\* nothing separates.
LastSplitPart(s) ==
  LET part(lastColon) ==
        IF lastColon = 0 THEN s
        ELSE Drop(s, NextNotIn(s, lastColon + 1, Whitespace) - 1)
  IN part(LastSuch(Len(s), LAMBDA c : SeparatorColon(s, c)))

\* the marker cleanFeedback puts before a text that starts with none
FeedbackMarker(cleaned) ==
  LET low == toLowerCase(cleaned)
  IN IF \/ includes(low, WordCorrect) \/ includes(low, WordGood)
        \/ includes(low, WordExcellent) \/ includes(low, WordGreat)
       THEN ":white_check_mark:"
     ELSE IF \/ includes(low, WordWrong) \/ includes(low, WordIncorrect)
             \/ includes(low, WordError)
       THEN ":cross_mark:"
     ELSE IF \/ includes(low, WordHint) \/ includes(low, WordTry)
             \/ includes(low, WordRemember)
       THEN ":bulb:"
     ELSE ":memo:"

\* the first replacements of cleanFeedback, up to its first trim
RemoveJsonArtifacts(text) ==
  trim(ReplaceBackslashed(ReplaceBackslashed(ReplaceBackslashed(
    ReplaceBackslashed(
      StripOuterQuotes(StripTrailingClose(StripLeadingOpen(text))),
      Quote, Quote), "n", "\n"), "t", "\t"), "r", "\r"))

\* "Remove trailing commas, quotes, and other JSON artifacts"
RemoveTrailingArtifacts(s) ==
  StripOuterQuotes(StripTrailingComma(StripLeadingComma(
    StripTrailingQuoteComma(StripTrailingQuoteComma(s)))))

\* "Handle specific malformed patterns"
LastFieldValue(s) ==
  IF \/ includes(s, ScoreColon) \/ includes(s, FeedbackColon)
     \/ includes(s, SuggestionsColon)
  THEN LastSplitPart(s)
  ELSE s

\* "Ensure it starts with an emoji or proper formatting"
WithMarker(s) ==
  IF s # <<>> /\ Head(s) \notin MarkerStart
  THEN <<FeedbackMarker(s), " ">> \o s
  ELSE s

\* cleanFeedback, on a string
cleanFeedback(text) ==
  IF text = <<>> THEN <<>>
  ELSE Then(RemoveJsonArtifacts(text), LAMBDA a :
       Then(StripFieldPrefixes(a, 1, Len(FieldPrefixes)), LAMBDA b :
       Then(RemoveTrailingArtifacts(b), LAMBDA c :
       Then(LastFieldValue(c), LAMBDA d :
       Then(trim(StripOuterQuotes(StripTrailingClose(StripLeadingOpen(d)))),
            LAMBDA e : trim(WithMarker(e)))))))

\* ------------------------------------------------------------------------
\* JavaScript conversions of a parsed JSON value: truthiness, Number(),
\* String()
\* ------------------------------------------------------------------------

\* the value's truthiness, as || and if test it
Truthy(val) ==
  CASE val.t = "num" -> val.v # 0
    [] val.t = "str" -> val.v # <<>>
    [] val.t = "bool" -> val.v
    [] val.t \in {"null", "undefined"} -> FALSE
    [] OTHER -> TRUE

\* a number, or NaN; n is in hundredths
Num(n) == [nan |-> FALSE, n |-> n]
NaN == [nan |-> TRUE, n |-> 0]

\* Number(s) of a string: its decimal literal, 0 for a blank string, NaN for
\* any other text (hexadecimal, exponent and Infinity literals are not
\* modelled; digits past the hundredths are dropped)
StringToNumber(str) ==
  LET number(neg, int, hasPoint, frac) ==
        IF /\ (int # <<>> \/ frac # <<>>)
           /\ \A i \in 1..Len(frac) : frac[i] \in Digit
        THEN Num(IF neg THEN -Hundredths(int, frac) ELSE Hundredths(int, frac))
        ELSE NaN
      fraction(neg, int, afterInt) ==
        IF afterInt = <<>> THEN number(neg, int, FALSE, <<>>)
        ELSE IF Head(afterInt) = "." THEN number(neg, int, TRUE, Tail(afterInt))
        ELSE NaN
      unsigned(neg, u) ==
        fraction(neg, LeadingRun(u, Digit), Drop(u, NextNotIn(u, 1, Digit) - 1))
      trimmed(t) ==
        IF t = <<>> THEN Num(0)
        ELSE IF Head(t) \in PlusMinus THEN unsigned(Head(t) = "-", Tail(t))
        ELSE unsigned(FALSE, t)
  IN trimmed(trim(str))

\* the decimal text of a number given in hundredths
NumberToString(n) ==
  LET m == IF n < 0 THEN -n ELSE n
      whole == NatToString(m \div 100)
      cents == m % 100
      decimals == IF cents = 0 THEN <<>>
                  ELSE IF cents % 10 = 0 THEN <<".", DigitChar(cents \div 10)>>
                  ELSE <<".", DigitChar(cents \div 10), DigitChar(cents % 10)>>
  IN (IF n < 0 THEN <<"-">> ELSE <<>>) \o whole \o decimals

ObjectObject ==
  <<"[", "o", "b", "j", "e", "c", "t", " ", "O", "b", "j", "e", "c", "t", "]">>

WordUndefined == <<"u", "n", "d", "e", "f", "i", "n", "e", "d">>

\* String(val); an array joins the strings of its elements with commas, a
\* null element giving the empty string
RECURSIVE StringOf(_)
RECURSIVE JoinElements(_, _)
StringOf(val) ==
  CASE val.t = "str" -> val.v
    [] val.t = "num" -> NumberToString(val.v)
    [] val.t = "bool" -> IF val.v THEN LiteralTrue ELSE LiteralFalse
    [] val.t = "null" -> LiteralNull
    [] val.t = "undefined" -> WordUndefined
    [] val.t = "arr" -> JoinElements(val.v, 1)
    [] OTHER -> ObjectObject

JoinElements(elems, k) ==
  IF k > Len(elems) THEN <<>>
  ELSE (IF k > 1 THEN <<",">> ELSE <<>>)
         \o (IF elems[k].t \in {"null", "undefined"} THEN <<>>
             ELSE StringOf(elems[k]))
         \o JoinElements(elems, k + 1)

\* Number(val)
ToNumber(val) ==
  CASE val.t = "num" -> Num(val.v)
    [] val.t = "str" -> StringToNumber(val.v)
    [] val.t = "bool" -> Num(IF val.v THEN 100 ELSE 0)
    [] val.t = "null" -> Num(0)
    [] val.t = "undefined" -> NaN
    [] val.t = "arr" -> StringToNumber(StringOf(val))
    [] OTHER -> NaN

\* Number(val) || fallback
NumberOr(val, fallback) ==
  LET x == ToNumber(val)
  IN IF x.nan \/ x.n = 0 THEN fallback ELSE x.n

\* Math.max(lo, Math.min(hi, n))
\* no clamp at all
NoClamp(lo, hi, n) == n

Clamp(lo, hi, n) == IF n < lo THEN lo ELSE IF n > hi THEN hi ELSE n

\* a falsy value kept as it is in a result field
FalsyField(val) ==
  CASE val.t = "undefined" -> Undefined
    [] val.t = "null" -> <<":null:">>
    [] val.t = "bool" -> <<":false:">>
    [] val.t = "num" -> <<":zero:">>
    [] OTHER -> <<>>

\* ------------------------------------------------------------------------
\* Control flow: how a block of statements ends
\* ------------------------------------------------------------------------

\* the block returned value
Returns(value) == [how |-> "return", value |-> value]

\* the block threw the named error
Throws(error) == [how |-> "throw", value |-> error]

\* the block ran to its end without returning
FallsThrough == [how |-> "end", value |-> "none"]

\* ------------------------------------------------------------------------
\* Response Normalizer: the candidate JSON body and its strict parse
\* ------------------------------------------------------------------------

\* trim, remove the code fences, match /\{[\s\S]*\}/ (<<>>: no match)
ExtractJson(response) == MatchBraces(RemoveCodeFences(trim(response)))

\* JSON.parse of the repaired candidate body: found is FALSE when there is no
\* candidate, ok is FALSE when JSON.parse throws
StrictParse(response) ==
  LET result(r) == [found |-> TRUE, ok |-> r.ok, val |-> r.val]
      candidate(jsonString) ==
        IF jsonString = <<>> THEN [found |-> FALSE, ok |-> FALSE, val |-> JNull]
        ELSE result(JSONparse(FixCommonJsonIssues(jsonString)))
  IN candidate(ExtractJson(response))

\* ------------------------------------------------------------------------
\* parseValidationResponse
\* ------------------------------------------------------------------------

\* parsed.explanation ? this.cleanFeedback(parsed.explanation) : parsed.explanation
\* (cleanFeedback throws a TypeError on a truthy value that is no string)
CleanIfTruthy(val) ==
  IF ~Truthy(val) THEN Returns(FalsyField(val))
  ELSE IF val.t # "str" THEN Throws("TypeError")
  ELSE Returns(cleanFeedback(val.v))

\* the try block of parseValidationResponse
ValidationTryBlock(response) ==
  LET result(parsed, feedback, explanation) ==
        IF feedback.how = "throw" THEN feedback
        ELSE IF explanation.how = "throw" THEN explanation
        ELSE Returns(StepResult(
               Truthy(Get(parsed, WordIsCorrect)),
               feedback.value,
               explanation.value,
               Clamp(0, 100, NumberOr(Get(parsed, WordConfidence), 50))))
      fields(parsed) ==
        result(parsed,
               CleanIfTruthy(IF Truthy(Get(parsed, WordFeedback))
                             THEN Get(parsed, WordFeedback)
                             ELSE JStr(NoFeedbackProvided)),
               CleanIfTruthy(Get(parsed, WordExplanation)))
      body(p) ==
        IF ~p.found THEN FallsThrough
        ELSE IF ~p.ok THEN Throws("SyntaxError")
        ELSE fields(p.val)
  IN body(StrictParse(response))

\* a keyword scan of the response as it came, uncleaned
RawKeywordScan(response) ==
  LET result(isCorrect) ==
        StepResult(isCorrect,
          SubstringTo(response, 200)
            \o (IF UnitLength(response) > 200 THEN Ellipsis ELSE <<>>),
          Undefined,
          IF isCorrect THEN 80 ELSE 30)
      scan(low) ==
        result(\/ includes(low, WordCorrect)
               \/ includes(low, WordValid)
               \/ includes(low, WordTrue))
  IN scan(toLowerCase(response))

\* "Fallback parsing - clean the response"
KeywordScan(response) ==
  LET result(cleanedResponse, isCorrect) ==
        StepResult(isCorrect,
          SubstringTo(cleanedResponse, 200)
            \o (IF UnitLength(cleanedResponse) > 200 THEN Ellipsis ELSE <<>>),
          Undefined,
          IF isCorrect THEN 80 ELSE 30)
      scan(cleanedResponse, low) ==
        result(cleanedResponse, \/ includes(low, WordCorrect)
                                \/ includes(low, WordValid)
                                \/ includes(low, WordTrue))
      lower(cleanedResponse) == scan(cleanedResponse, toLowerCase(cleanedResponse))
  IN lower(cleanFeedback(response))

\* the catch of parseValidationResponse only logs: a thrown error and a
\* response without a JSON body both reach the fallback parsing
parseValidationResponse(response) ==
  LET after(try) ==
        IF try.how = "return" THEN try.value ELSE KeywordScan(response)
  IN after(ValidationTryBlock(response))

\* ------------------------------------------------------------------------
\* cleanSuggestion
\* ------------------------------------------------------------------------

\* s.replace(/^lit\s*/, '') for a literal lit
StripLiteralPrefix(s, lit) ==
  IF OccursAt(s, lit, 1)
  THEN Drop(s, NextNotIn(s, Len(lit) + 1, Whitespace) - 1)
  ELSE s

\* [•\-\*]
BulletChars == {":bullet:", "-", "*"}

\* s.replace(/^[•\-\*]\s*/, '')
StripBullet(s) ==
  IF s # <<>> /\ Head(s) \in BulletChars
  THEN Drop(s, NextNotIn(s, 2, Whitespace) - 1)
  ELSE s

SolutionExampleOpen == <<"(", "x", " ", "=", " ">>

\* s.replace(/^\(x = \d+\)\.?\s*/, '')
StripSolutionExample(s) ==
  LET strip(digitsEnd) ==
        IF /\ OccursAt(s, SolutionExampleOpen, 1)
           /\ digitsEnd > Len(SolutionExampleOpen) + 1
           /\ At(s, digitsEnd) = ")"
        THEN Drop(s, NextNotIn(s, IF At(s, digitsEnd + 1) = "."
                                  THEN digitsEnd + 2 ELSE digitsEnd + 1,
                               Whitespace) - 1)
        ELSE s
  IN strip(NextNotIn(s, Len(SolutionExampleOpen) + 1, Digit))

\* "Remove bullet points and formatting artifacts"
RemoveSuggestionPrefixes(text) ==
  Then(StripLiteralPrefix(StripBullet(text), <<":memo:">>), LAMBDA a :
  Then(StripLiteralPrefix(StripLiteralPrefix(a, <<"e", ".", "g", ".">>),
                          <<"T", "h", "u", "s">>), LAMBDA b :
  Then(StripLiteralPrefix(StripSolutionExample(b),
                          <<"V", "e", "r", "i", "f", "y">>), LAMBDA c :
  Then(StripLiteralPrefix(StripLiteralPrefix(c,
                            <<"I", "n", "c", "l", "u", "d", "e">>),
                          <<"A", "d", "d">>), LAMBDA d :
  trim(d)))))

\* s.replace(/\\c/g, ''): every backslash directly followed by c goes with it
RemoveBackslashed(s, c) ==
  LET starts(i) == s[i] = Backslash /\ i < Len(s) /\ s[i + 1] = c
  IN KeepWhere(s, LAMBDA i : ~starts(i) /\ ~(i > 1 /\ starts(i - 1)))

\* The last position of a match of /\\[a-zA-Z]+\{[^}]*\}/ (command TRUE) or
\* of /\{[^}]*\}/ (command FALSE) that starts at position i of s, or 0.
GroupEnd(s, i, command) ==
  LET closed(close) == IF close <= Len(s) THEN close ELSE 0
      opened(open) ==
        IF /\ At(s, open) = "{"
           /\ command => (s[i] = Backslash /\ open > i + 1)
        THEN closed(NextChar(s, open + 1, "}"))
        ELSE 0
  IN opened(IF command THEN NextNotIn(s, i + 1, Letter) ELSE i)

\* s.replace(/\\[a-zA-Z]+\{[^}]*\}/g, '') or s.replace(/\{[^}]*\}/g, ''):
\* one step for each match
RECURSIVE RemoveGroups(_, _)
RemoveGroups(s, command) ==
  LET cut(first) ==
        IF first = 0 THEN s
        ELSE SubSeq(s, 1, first - 1)
               \o RemoveGroups(Drop(s, GroupEnd(s, first, command)), command)
  IN After(s, cut(FirstSuch(Len(s), LAMBDA i : GroupEnd(s, i, command) > 0)))

\* s.replace(/\\/g, '')
RemoveBackslashes(s) == KeepWhere(s, LAMBDA i : s[i] # Backslash)

\* "Remove LaTeX formatting"
RemoveLatexFormatting(s) ==
  Then(RemoveBackslashed(s, "("), LAMBDA a :
  Then(RemoveBackslashed(a, ")"), LAMBDA b :
  Then(RemoveGroups(b, TRUE), LAMBDA c :
  Then(RemoveGroups(c, FALSE), LAMBDA d :
  trim(RemoveBackslashes(d))))))

InspectWords ==
  {<<"v", "e", "r", "i", "f", "y">>,
   <<"c", "h", "e", "c", "k">>,
   <<"s", "u", "b", "s", "t", "i", "t", "u", "t", "e">>}

WriteWords ==
  {<<"a", "d", "d">>,
   <<"i", "n", "c", "l", "u", "d", "e">>,
   <<"s", "t", "e", "p">>}

ExplainWords ==
  {<<"e", "x", "p", "l", "a", "i", "n">>,
   <<"u", "n", "d", "e", "r", "s", "t", "a", "n", "d", "i", "n", "g">>,
   <<"r", "e", "i", "n", "f", "o", "r", "c", "e">>}

PracticeWords ==
  {<<"p", "r", "a", "c", "t", "i", "c", "e">>,
   <<"r", "e", "v", "i", "e", "w">>,
   <<"f", "o", "c", "u", "s">>}

IncludesAny(s, words) == \E w \in words : includes(s, w)

\* "Add appropriate emoji based on content"
SuggestionMarker(cleaned) ==
  LET low == toLowerCase(cleaned)
  IN IF IncludesAny(low, InspectWords) THEN ":mag:"
     ELSE IF IncludesAny(low, WriteWords) THEN ":memo:"
     ELSE IF IncludesAny(low, ExplainWords) THEN ":books:"
     ELSE IF IncludesAny(low, PracticeWords) THEN ":dart:"
     ELSE ":bulb:"

\* cleanSuggestion, on a string
cleanSuggestion(text) ==
  LET marked(cleaned) == trim(<<SuggestionMarker(cleaned), " ">> \o cleaned)
  IN IF text = <<>> THEN <<>>
     ELSE Then(RemoveSuggestionPrefixes(text), LAMBDA a :
          Then(RemoveLatexFormatting(a), LAMBDA b : marked(b)))

\* ------------------------------------------------------------------------
\* generateDefaultSuggestions.  A score is in hundredths, like every number.
\* ------------------------------------------------------------------------

ExcellentDefaults ==
  << <<":dart:", " ", "Try more complex problems to challenge yourself">>,
     <<":star2:", " ", "Consider exploring advanced topics like quadratic equations">>,
     <<":muscle:", " ", "Keep up the excellent work!">> >>

GoodDefaults ==
  << <<":books:", " ", "Review the steps you missed and understand the correct approach">>,
     <<":dart:", " ", "Practice similar problems to strengthen your skills">>,
     <<":bulb:", " ", "Focus on the areas that need improvement">> >>

ProgressDefaults ==
  << <<":book:", " ", "Focus on understanding the fundamental algebraic rules">>,
     <<":mag:", " ", "Break down complex problems into smaller, manageable steps">>,
     <<":abacus:", " ", "Double-check your arithmetic calculations">> >>

KeepGoingDefaults ==
  << <<":books:", " ", "Review basic algebraic operations and rules">>,
     <<":dart:", " ", "Start with simpler problems and gradually increase difficulty">>,
     <<":muscle:", " ", "Don't hesitate to ask for help when you need it">> >>

\* score is a number or NaN; every comparison with NaN is false
generateDefaultSuggestions(score) ==
  IF ~score.nan /\ score.n >= 9000 THEN ExcellentDefaults
  ELSE IF ~score.nan /\ score.n >= 7000 THEN GoodDefaults
  ELSE IF ~score.nan /\ score.n >= 5000 THEN ProgressDefaults
  ELSE KeepGoingDefaults

\* ------------------------------------------------------------------------
\* parseSolutionEvaluation
\* ------------------------------------------------------------------------

\* the object evaluateCompleteSolution resolves to
Evaluation(score, feedback, suggestions) ==
  [score |-> score, feedback |-> feedback, suggestions |-> suggestions]

\* Items of a pattern whose parts never give back what they took: a literal,
\* or a run of characters in (or, with neg, not in) a class, at least min long
Lit(text) == [lit |-> text, cls |-> {}, neg |-> FALSE, min |-> 0]
Run(cls, min) == [lit |-> <<>>, cls |-> cls, neg |-> FALSE, min |-> min]
RunNot(cls, min) == [lit |-> <<>>, cls |-> cls, neg |-> TRUE, min |-> min]

\* the first position from i of s that the run of the item does not take
RunEnd(s, i, item) ==
  IF item.neg
  THEN FirstSuch(Len(s) + 1,
                 LAMBDA j : j >= i /\ (j > Len(s) \/ s[j] \in item.cls))
  ELSE NextNotIn(s, i, item.cls)

\* the position after item k of re matched at position i of s, or 0
ItemEnd(re, s, i, k) ==
  LET least(j) == IF j >= i + re[k].min THEN j ELSE 0
  IN IF re[k].lit # <<>>
     THEN IF OccursAt(s, re[k].lit, i) THEN i + Len(re[k].lit) ELSE 0
     ELSE least(RunEnd(s, i, re[k]))

\* The positions after each of the items lo..hi of re, matched from position
\* i of s one after the other (the first half of them, then the second
\* half); <<>> when one of them does not match.
RECURSIVE ItemEnds(_, _, _, _, _)
ItemEnds(re, s, i, lo, hi) ==
  LET both(left, right) == IF right = <<>> THEN <<>> ELSE left \o right
      one(j) == IF j = 0 THEN <<>> ELSE <<j>>
  IN IF lo = hi THEN one(ItemEnd(re, s, i, lo))
     ELSE Then(ItemEnds(re, s, i, lo, (lo + hi) \div 2), LAMBDA left :
            IF left = <<>> THEN <<>>
            ELSE Then(ItemEnds(re, s, left[Len(left)],
                               ((lo + hi) \div 2) + 1, hi),
                      LAMBDA right : both(left, right)))

\* /["\s]*score["\s]*:\s*(\d+),["\s]*feedback["\s]*:\s*"([^"]+)",
\*  ["\s]*suggestions["\s]*:\s*\[([^\]]*)\]/
MalformedRe ==
  << Run(QuoteOrSpace, 0), Lit(WordScore), Run(QuoteOrSpace, 0), Lit(<<":">>),
     Run(Whitespace, 0), Run(Digit, 1), Lit(<<",">>),
     Run(QuoteOrSpace, 0), Lit(WordFeedback), Run(QuoteOrSpace, 0), Lit(<<":">>),
     Run(Whitespace, 0), Lit(<<Quote>>), RunNot({Quote}, 1), Lit(<<Quote, ",">>),
     Run(QuoteOrSpace, 0), Lit(WordSuggestions), Run(QuoteOrSpace, 0),
     Lit(<<":">>), Run(Whitespace, 0), Lit(<<"[">>), RunNot({"]"}, 0),
     Lit(<<"]">>) >>

\* cleanedResponse.match(MalformedRe): the groups of the leftmost match; ok
\* is FALSE when nothing matches
MalformedMatch(s) ==
  LET groups(ends) ==
        [ok |-> TRUE,
         score |-> SubSeq(s, ends[5], ends[6] - 1),
         feedback |-> SubSeq(s, ends[13], ends[14] - 1),
         suggestions |-> SubSeq(s, ends[21], ends[22] - 1)]
      match(i) ==
        IF i = 0
        THEN [ok |-> FALSE, score |-> <<>>, feedback |-> <<>>, suggestions |-> <<>>]
        ELSE groups(ItemEnds(MalformedRe, s, i, 1, Len(MalformedRe)))
  IN match(FirstSuch(Len(s),
                     LAMBDA i : ItemEnds(MalformedRe, s, i, 1, Len(MalformedRe)) # <<>>))

\* s.split(',')
SplitCommas(s) ==
  LET commas == SelectSeq([i \in 1..Len(s) |-> i], LAMBDA i : s[i] = ",")
      cuts == <<0>> \o commas \o <<Len(s) + 1>>
  IN [k \in 1..(Len(cuts) - 1) |-> SubSeq(s, cuts[k] + 1, cuts[k + 1] - 1)]

\* .filter(s => s.trim().length > 0)
NonBlank(texts) == SelectSeq(texts, LAMBDA x : trim(x) # <<>>)

\* the suggestions of the malformed-JSON branch
SplitSuggestions(suggestionsStr) ==
  LET cleaned(parts) ==
        NonBlank([k \in 1..Len(parts) |->
                    cleanSuggestion(StripOuterQuotes(trim(parts[k])))])
  IN IF trim(suggestionsStr) = <<>> THEN <<>>
     ELSE cleaned(SplitCommas(suggestionsStr))

\* the parsed suggestions kept as they are, also when there are none
KeepSuggestions(suggestions, score) == suggestions

\* suggestions.length > 0 ? suggestions : this.generateDefaultSuggestions(score)
SuggestionsOrDefault(suggestions, score) ==
  IF suggestions = <<>> THEN generateDefaultSuggestions(score) ELSE suggestions

\* the branch taken when malformedMatch is not null
MalformedEvaluation(m) ==
  LET result(score) ==
        Evaluation(score, cleanFeedback(m.feedback),
                   SuggestionsOrDefault(SplitSuggestions(m.suggestions),
                                        Num(score)))
  IN result(Clamp(0, 10000, 100 * parseInt(m.score)))

NoFeedbackProvidedSentence == NoFeedbackProvided \o <<".">>

\* parsed.suggestions, cleaned: the elements that are not strings go through
\* String()
ParsedSuggestions(parsed) ==
  LET raw == Get(parsed, WordSuggestions)
  IN IF raw.t # "arr" THEN <<>>
     ELSE NonBlank([k \in 1..Len(raw.v) |-> cleanSuggestion(StringOf(raw.v[k]))])

\* a score of 0 whatever the parsed object holds
ZeroScore(parsed) == Num(0)

\* parsed.score || 0, as generateDefaultSuggestions compares it
ScoreOrZero(parsed) ==
  IF Truthy(Get(parsed, WordScore)) THEN ToNumber(Get(parsed, WordScore))
  ELSE Num(0)

\* the try block of parseSolutionEvaluation
EvaluationTryBlock(response) ==
  LET fields(parsed, feedback) ==
        IF feedback.how = "throw" THEN feedback
        ELSE Returns(Evaluation(
               Clamp(0, 10000, NumberOr(Get(parsed, WordScore), 0)),
               feedback.value,
               SuggestionsOrDefault(ParsedSuggestions(parsed),
                                    ScoreOrZero(parsed))))
      strict(p) ==
        IF ~p.found THEN FallsThrough
        ELSE IF ~p.ok THEN Throws("SyntaxError")
        ELSE fields(p.val,
                    CleanIfTruthy(IF Truthy(Get(p.val, WordFeedback))
                                  THEN Get(p.val, WordFeedback)
                                  ELSE JStr(NoFeedbackProvidedSentence)))
      matched(m) ==
        IF m.ok THEN Returns(MalformedEvaluation(m))
        ELSE strict(StrictParse(response))
  IN matched(MalformedMatch(RemoveCodeFences(trim(response))))

SlashHundred == <<"/", "1", "0", "0">>

ColonOrSpace == Whitespace \cup {":"}

\* The digits response.match(/(\d+)\/100|score[:\s]*(\d+)/i) captures at its
\* leftmost match, the first alternative tried first; <<>> when nothing
\* matches.
ScoreMatch(response) ==
  LET outOf(i) ==
        /\ response[i] \in Digit
        /\ OccursAt(response, SlashHundred, NextNotIn(response, i, Digit))
      labelled(i) ==
        /\ OccursAt(toLowerCase(response), WordScore, i)
        /\ At(response, NextNotIn(response, i + Len(WordScore), ColonOrSpace))
             \in Digit
      digits(from) == SubSeq(response, from, NextNotIn(response, from, Digit) - 1)
      match(first) ==
        IF first = 0 THEN <<>>
        ELSE IF outOf(first) THEN digits(first)
        ELSE digits(NextNotIn(response, first + Len(WordScore), ColonOrSpace))
  IN match(FirstSuch(Len(response), LAMBDA i : outOf(i) \/ labelled(i)))

\* "Fallback parsing"
EvaluationFallback(response) ==
  LET result(score) ==
        Evaluation(
          Clamp(0, 10000, score),
          cleanFeedback(SubstringTo(response, 500))
            \o (IF UnitLength(response) > 500 THEN Ellipsis ELSE <<>>),
          generateDefaultSuggestions(Num(score)))
      scored(scoreMatch) ==
        result(IF scoreMatch # <<>> THEN 100 * parseInt(scoreMatch) ELSE 5000)
  IN scored(ScoreMatch(response))

\* the catch of parseSolutionEvaluation only logs
parseSolutionEvaluation(response) ==
  LET after(try) ==
        IF try.how = "return" THEN try.value ELSE EvaluationFallback(response)
  IN after(EvaluationTryBlock(response))

\* ------------------------------------------------------------------------
\* fallbackSolutionEvaluation
\* ------------------------------------------------------------------------

\* one step of solutionData.steps
SolutionStep(stepNumber, latex, isCorrect, feedback) ==
  [stepNumber |-> stepNumber, latex |-> latex, isCorrect |-> isCorrect,
   feedback |-> feedback]

\* solutionData.steps.filter(step => step.isCorrect).length
CorrectSteps(steps) == Cardinality({i \in 1..Len(steps) : steps[i].isCorrect})

\* accuracy >= percent, for accuracy = totalSteps > 0 ?
\* (correctSteps / totalSteps) * 100 : 0
AccuracyAtLeast(correctSteps, totalSteps, percent) ==
  /\ totalSteps > 0
  /\ 100 * correctSteps >= percent * totalSteps

\* Math.floor(accuracy) in the place of Math.round(accuracy)
FlooredAccuracy(correctSteps, totalSteps) ==
  IF totalSteps > 0 THEN (100 * correctSteps) \div totalSteps ELSE 0

\* Math.round(accuracy): the nearest integer, a half going up.  (The double
\* product of the source lies on the same side of every half as the exact
\* quotient for fewer than 40 steps.)
RoundedAccuracy(correctSteps, totalSteps) ==
  IF totalSteps > 0
  THEN (200 * correctSteps + totalSteps) \div (2 * totalSteps)
  ELSE 0

\* let score = Math.round(accuracy);
\* if (accuracy === 100) score = Math.min(100, score + 10);
FallbackScore(correctSteps, totalSteps) ==
  LET score == RoundedAccuracy(correctSteps, totalSteps)
  IN IF totalSteps > 0 /\ correctSteps = totalSteps
     THEN (IF score + 10 > 100 THEN 100 ELSE score + 10)
     ELSE score

\* `${correctSteps}/${totalSteps} steps correct.` after the band's opening
BandFeedback(emoji, opening, correctSteps, totalSteps) ==
  <<emoji, " ", opening>> \o IntToString(correctSteps) \o <<"/">>
    \o IntToString(totalSteps) \o <<" steps correct.">>

ExcellentBand ==
  << <<"Try more complex problems to further challenge yourself">>,
     <<"Consider exploring advanced topics like quadratic equations">> >>

GoodBand ==
  << <<"Review the steps you missed and understand the correct approach">>,
     <<"Practice similar problems to strengthen your skills">> >>

ProgressBand ==
  << <<"Focus on understanding the fundamental algebraic rules">>,
     <<"Break down complex problems into smaller, manageable steps">>,
     <<"Double-check your arithmetic calculations">> >>

KeepGoingBand ==
  << <<"Review basic algebraic operations and rules">>,
     <<"Start with simpler problems and gradually increase difficulty">>,
     <<"Don't hesitate to ask for help when you need it">> >>

SignReminder ==
  <<"Remember: when moving terms across an equals sign, change their signs">>

\* the score of the result is in hundredths, like every number
fallbackSolutionEvaluation(solutionData) ==
  LET steps == solutionData.steps
      totalSteps == Len(steps)
      correctSteps == CorrectSteps(steps)
      atLeast(percent) == AccuracyAtLeast(correctSteps, totalSteps, percent)
      feedback ==
        IF atLeast(90)
          THEN BandFeedback(":tada:", "Excellent! ", correctSteps, totalSteps)
        ELSE IF atLeast(70)
          THEN BandFeedback(":thumbsup:", "Good! ", correctSteps, totalSteps)
        ELSE IF atLeast(50)
          THEN BandFeedback(":books:", "Progress! ", correctSteps, totalSteps)
        ELSE BandFeedback(":muscle:", "Keep going! ", correctSteps, totalSteps)
      band == IF atLeast(90) THEN ExcellentBand
              ELSE IF atLeast(70) THEN GoodBand
              ELSE IF atLeast(50) THEN ProgressBand
              ELSE KeepGoingBand
      stepSpecific ==
        IF /\ \E i \in 1..Len(steps) : includes(steps[i].latex, <<"=">>)
           /\ correctSteps < totalSteps
        THEN <<SignReminder>>
        ELSE <<>>
  IN Evaluation(100 * FallbackScore(correctSteps, totalSteps), feedback,
                band \o stepSpecific)

\* ------------------------------------------------------------------------
\* The Completion capability (groq.chat.completions.create) and the promise
\* an entry point returns
\* ------------------------------------------------------------------------

\* The ways the awaited call can end:
\*   "content"   it resolves and choices[0].message.content is a non-empty
\*               string (text);
\*   "empty"     it resolves and choices[0]?.message?.content is '', null or
\*               undefined;
\*   "malformed" it resolves with a value that has no choices array, so that
\*               reading choices[0] throws a TypeError;
\*   "rejected"  it rejects.
Content(text) == [kind |-> "content", text |-> text]
EmptyContent == [kind |-> "empty", text |-> <<>>]
MalformedCompletion == [kind |-> "malformed", text |-> <<>>]
RejectedCompletion == [kind |-> "rejected", text |-> <<>>]
NoCompletion == [kind |-> "none", text |-> <<>>]

\* the awaited call throws into the try block that holds it
CompletionThrows(completion) == completion.kind \in {"malformed", "rejected"}

\* the promise of an async function: resolved with the value its body
\* returns, rejected with the error its body throws
Resolved(value) == [settled |-> "resolved", value |-> value]
Rejected(error) == [settled |-> "rejected", value |-> error]
Pending == [settled |-> "pending", value |-> "none"]
AsyncResult(block) ==
  IF block.how = "throw" THEN Rejected(block.value) ELSE Resolved(block.value)

\* ------------------------------------------------------------------------
\* validateMathStep
\* ------------------------------------------------------------------------

UnableToValidateResult ==
  StepResult(FALSE,
    <<"Unable to validate step. Please check your internet connection and try again.">>,
    Undefined, 0)

\* a try block that throws where no object is recovered from the response
ThrowsOnUnusable(completion) ==
  IF completion.kind = "rejected" THEN Throws("CompletionError")
  ELSE IF completion.kind = "malformed" THEN Throws("TypeError")
  ELSE IF ~(StrictParse(completion.text).found /\ StrictParse(completion.text).ok)
    THEN Throws("SyntaxError")
  ELSE Returns(parseValidationResponse(completion.text))

\* the try block, from the await on
ValidateTryBlock(completion) ==
  IF completion.kind = "rejected" THEN Throws("CompletionError")
  ELSE IF completion.kind = "malformed" THEN Throws("TypeError")
  ELSE Returns(parseValidationResponse(completion.text))

\* a catch block that never asks the Heuristic Validator
NeverHeuristic(latex, rnd) == Returns(UnableToValidateResult)

\* the catch block
ValidateCatchBlock(latex, rnd) ==
  IF trim(latex) # <<>> THEN Returns(fallbackValidation(latex, rnd))
  ELSE Returns(UnableToValidateResult)

validateMathStep(latex, completion, rnd) ==
  LET settle(try) ==
        IF try.how = "throw" THEN AsyncResult(ValidateCatchBlock(latex, rnd))
        ELSE AsyncResult(try)
  IN settle(ValidateTryBlock(completion))

\* ------------------------------------------------------------------------
\* getStepHint
\* ------------------------------------------------------------------------

TryToReview ==
  <<"T", "r", "y", " ", "t", "o", " ", "r", "e", "v", "i", "e", "w", " ", "t", "h", "e", " ", "a", "l", "g", "e", "b", "r", "a", "i", "c", " ", "r", "u", "l", "e", "s", " ", "a", "n", "d", " ", "t", "r", "y", " ", "a", "g", "a", "i", "n", ".">>

\* the try block, from the await on
HintTryBlock(completion) ==
  IF completion.kind = "rejected" THEN Throws("CompletionError")
  ELSE IF completion.kind = "malformed" THEN Throws("TypeError")
  ELSE Returns(cleanFeedback(IF completion.kind = "content" THEN completion.text
                             ELSE TryToReview))

\* a catch block that throws the error on
HintRethrows == Throws("CompletionError")

\* the catch block
HintCatchBlock == Returns(TryToReview)

getStepHint(completion) ==
  LET settle(try) ==
        IF try.how = "throw" THEN AsyncResult(HintCatchBlock)
        ELSE AsyncResult(try)
  IN settle(HintTryBlock(completion))

\* ------------------------------------------------------------------------
\* evaluateCompleteSolution
\* ------------------------------------------------------------------------

\* the try block, from the await on
EvaluateTryBlock(completion) ==
  IF completion.kind = "rejected" THEN Throws("CompletionError")
  ELSE IF completion.kind = "malformed" THEN Throws("TypeError")
  ELSE Returns(parseSolutionEvaluation(completion.text))

\* the catch block
EvaluateCatchBlock(solutionData) ==
  Returns(fallbackSolutionEvaluation(solutionData))

evaluateCompleteSolution(solutionData, completion) ==
  LET settle(try) ==
        IF try.how = "throw" THEN AsyncResult(EvaluateCatchBlock(solutionData))
        ELSE AsyncResult(try)
  IN settle(EvaluateTryBlock(completion))

\* ------------------------------------------------------------------------
\* The calls the model makes and the outcomes of the Completion capability
\* it lets happen
\* ------------------------------------------------------------------------

\* the most steps a submitted solution holds
MaxSteps == 3

\* the latex arguments of validateMathStep and getStepHint
StepInputs ==
  {<<>>,
   <<" ">>,
   <<"2", "x", " ", "=", " ", "1", "1", " ", "+", " ", "3">>,
   <<"5", " ", "+", " ", "3", " ", "=", " ", "9">>,
   <<"1", "1", " ", "=", " ", "1", "1">>,
   <<"x", " ", "=", " ", "4">>,
   <<"2", "x", " ", "+", " ", "3", " ", "=", " ", "1", "1">>,
   <<"?">>}

\* the optional context argument: left out, or the problem statement
ContextInputs == {Undefined, <<"2", "x", " ", "+", " ", "3", " ", "=", " ", "1", "1">>}

\* the latex of the steps of a submitted solution
SolutionLatex == {<<"x", " ", "=", " ", "4">>, <<"1", "1", " ", "-", " ", "3">>}

\* steps numbered from 1, of any correctness
StepsOfLength(n) ==
  {[i \in 1..n |-> SolutionStep(i, choice[i].latex, choice[i].isCorrect, <<>>)] :
     choice \in [1..n -> [latex : SolutionLatex, isCorrect : BOOLEAN]]}

SolutionInputs ==
  {[originalQuestion |-> <<"2", "x", " ", "+", " ", "3", " ", "=", " ", "1", "1">>, steps |-> steps] :
     steps \in UNION {StepsOfLength(n) : n \in 0..MaxSteps}}

NoSolution == [originalQuestion |-> <<>>, steps |-> <<>>]

\* response texts for validateMathStep
ValidationTexts ==
  {<<Backtick, Backtick, Backtick, "j", "s", "o", "n", "\n", "{", "\"", "i", "s", "C", "o", "r", "r", "e", "c", "t", "\"", ":", "t", "r", "u", "e", ",", "\"", "f", "e", "e", "d", "b", "a", "c", "k", "\"", ":", "\"", "N", "i", "c", "e", " ", "w", "o", "r", "k", "\"", ",", "\"", "c", "o", "n", "f", "i", "d", "e", "n", "c", "e", "\"", ":", "0", ".", "9", "}", "\n", Backtick, Backtick, Backtick>>,
   <<"S", "u", "r", "e", ":", " ", "{", "\"", "i", "s", "C", "o", "r", "r", "e", "c", "t", "\"", ":", "f", "a", "l", "s", "e", ",", "\"", "f", "e", "e", "d", "b", "a", "c", "k", "\"", ":", "\"", "C", "h", "e", "c", "k", " ", "t", "h", "e", " ", "s", "i", "g", "n", "\"", ",", "\"", "e", "x", "p", "l", "a", "n", "a", "t", "i", "o", "n", "\"", ":", "\"", "3", " ", "m", "o", "v", "e", "s", " ", "o", "v", "e", "r", "\"", ",", "\"", "c", "o", "n", "f", "i", "d", "e", "n", "c", "e", "\"", ":", "2", "}", " ", "o", "k">>,
   <<"{", "\"", "i", "s", "C", "o", "r", "r", "e", "c", "t", "\"", ":", "t", "r", "u", "e", ",", "\"", "f", "e", "e", "d", "b", "a", "c", "k", "\"", ":", "\"", "o", "k", "\"", ",", "\"", "c", "o", "n", "f", "i", "d", "e", "n", "c", "e", "\"", ":", "-", "1", "}">>,
   <<"{", "\"", "i", "s", "C", "o", "r", "r", "e", "c", "t", "\"", ":", "t", "r", "u", "e", ",", "\"", "f", "e", "e", "d", "b", "a", "c", "k", "\"", ":", "\"", "o", "k", "\"", ",", "\"", "c", "o", "n", "f", "i", "d", "e", "n", "c", "e", "\"", ":", "0", "}">>,
   <<"{", "\"", "f", "e", "e", "d", "b", "a", "c", "k", "\"", ":", "\"", "s", "a", "y", " ", "\\", "\"", "h", "i", "\\", "\"", "\"", ",", "\"", "c", "o", "n", "f", "i", "d", "e", "n", "c", "e", "\"", ":", "0", ".", "9", "}">>,
   <<"{", "\"", "i", "s", "C", "o", "r", "r", "e", "c", "t", "\"", ":", "t", "r", "u", "e", ",", "\"", "f", "e", "e", "d", "b", "a", "c", "k", "\"", ":", "7", ",", "\"", "c", "o", "n", "f", "i", "d", "e", "n", "c", "e", "\"", ":", "0", ".", "9", "}">>,
   <<"{", "\"", "c", "o", "n", "f", "i", "d", "e", "n", "c", "e", "\"", ":", "\"", "h", "i", "g", "h", "\"", "}">>,
   <<"{", "o", "o", "p", "s", "}">>,
   <<"T", "h", "e", " ", "s", "t", "e", "p", " ", "i", "s", " ", "i", "n", "c", "o", "r", "r", "e", "c", "t", ".">>,
   <<"W", "r", "o", "n", "g", " ", "s", "i", "g", "n", ".">>,
   <<"I", "t", " ", "i", "s", " ", "c", "o", "r", "r", "e", "c", "t", ".", " ", "\"", "f", "e", "e", "d", "b", "a", "c", "k", "\"", ":", " ", "\"", "n", "o", "\"">>,
   <<"T", "h", "i", "s", " ", "s", "t", "e", "p", " ", "i", "s", " ", "n", "o", "t", " ", "r", "i", "g", "h", "t", ".", " ">> \o [i \in 1..200 |-> "z"]}

\* response texts for getStepHint
HintTexts ==
  {<<":bulb:", " ", "T", "r", "y", " ", "i", "s", "o", "l", "a", "t", "i", "n", "g", " ", "x">>,
   <<"R", "e", "m", "e", "m", "b", "e", "r", " ", "t", "o", " ", "f", "l", "i", "p", " ", "t", "h", "e", " ", "s", "i", "g", "n">>,
   <<"\"", "f", "e", "e", "d", "b", "a", "c", "k", "\"", ":", " ", "\"", "l", "o", "o", "k", " ", "a", "g", "a", "i", "n", "\"">>}

\* response texts for evaluateCompleteSolution
EvaluationTexts ==
  {<<Backtick, Backtick, Backtick, "j", "s", "o", "n", "\n", "{", "\"", "s", "c", "o", "r", "e", "\"", ":", "8", "5", ",", "\"", "f", "e", "e", "d", "b", "a", "c", "k", "\"", ":", "\"", "G", "o", "o", "d", ",", " ", "n", "i", "c", "e", " ", "w", "o", "r", "k", "\"", ",", "\"", "s", "u", "g", "g", "e", "s", "t", "i", "o", "n", "s", "\"", ":", "[", "\"", "C", "h", "e", "c", "k", " ", "s", "i", "g", "n", "s", ",", " ", "a", "l", "w", "a", "y", "s", "\"", ",", "\"", "P", "r", "a", "c", "t", "i", "c", "e", " ", "m", "o", "r", "e", "\"", "]", "}", "\n", Backtick, Backtick, Backtick>>,
   <<"{", "\"", "f", "e", "e", "d", "b", "a", "c", "k", "\"", ":", "\"", "W", "e", "l", "l", " ", "d", "o", "n", "e", "\"", ",", "\"", "s", "c", "o", "r", "e", "\"", ":", "1", "2", "0", ",", "\"", "s", "u", "g", "g", "e", "s", "t", "i", "o", "n", "s", "\"", ":", "[", "]", "}">>,
   <<"{", "\"", "s", "c", "o", "r", "e", "\"", ":", "-", "5", ",", "\"", "f", "e", "e", "d", "b", "a", "c", "k", "\"", ":", "\"", "o", "k", "\"", "}">>,
   <<"{", "\"", "s", "c", "o", "r", "e", "\"", ":", "\"", "a", "b", "c", "\"", ",", "\"", "f", "e", "e", "d", "b", "a", "c", "k", "\"", ":", "\"", "o", "k", "\"", ",", "\"", "s", "u", "g", "g", "e", "s", "t", "i", "o", "n", "s", "\"", ":", "[", "\"", "\"", ",", "n", "u", "l", "l", "]", "}">>,
   <<"\"", "s", "c", "o", "r", "e", "\"", ":", "9", "0", ",", "\"", "f", "e", "e", "d", "b", "a", "c", "k", "\"", ":", "\"", "G", "o", "o", "d", "\"", ",", "\"", "s", "u", "g", "g", "e", "s", "t", "i", "o", "n", "s", "\"", ":", "[", "]">>,
   <<"{", "\"", "s", "c", "o", "r", "e", "\"", ":", "8", "5", ".", "5", ",", "\"", "f", "e", "e", "d", "b", "a", "c", "k", "\"", ":", "7", "}">>,
   <<"I", " ", "g", "i", "v", "e", " ", "7", "2", "/", "1", "0", "0">>,
   <<"S", "c", "o", "r", "e", ":", " ", "9", "5", "0">>,
   <<"N", "o", " ", "i", "d", "e", "a", ".">>,
   <<"{", "\"", "s", "c", "o", "r", "e", "\"", ":", "9", "5", ",", "\"", "f", "e", "e", "d", "b", "a", "c", "k", "\"", ":", "\"", "G", "r", "e", "a", "t", "\"", ",", "\"", "s", "u", "g", "g", "e", "s", "t", "i", "o", "n", "s", "\"", ":", "\"", "P", "r", "a", "c", "t", "i", "c", "e", " ", "m", "o", "r", "e", "\"", "}">>}

\* the outcomes in which the awaited call hands back a response
Responses(texts) == {Content(text) : text \in texts} \cup {EmptyContent}

\* the outcomes in which the awaited call throws
Failures == {MalformedCompletion, RejectedCompletion}

\* ------------------------------------------------------------------------
\* State
\* ------------------------------------------------------------------------

VARIABLES
  pc,            \* "idle", "awaiting" (at the await of entry), "settled"
  entry,         \* the operation called last
  latex,         \* the latex argument of the call
  context,       \* the context argument of the call
  solutionData,  \* the argument of evaluateCompleteSolution
  completion,    \* how the awaited call ended
  outcome,       \* what the operation gave back
  previous,      \* what the same operation gave back the time before
  original       \* what the text under test was written from

\* The state of the notebook canvas (FabricNotebookCanvas) and of the
\* browser around it
VARIABLES
  steps,          \* the list of NotebookStep
  history,        \* the snapshots of steps
  historyIndex,   \* the index (from 0) of the snapshot shown, -1 at first
  restored,       \* the index of the snapshot that steps is the same array as,
                  \* -1 when steps is an array of its own
  validatingStep, \* the id of the step under validation, 0 for null
  isLoading,
  isDrawing,      \* for each step id, whether a stroke is being drawn
  currentStrokes, \* for each step id, the points of the stroke being drawn
  stepStrokes,    \* for each step id, the number of finished strokes
  timers,         \* the timeouts that are set and have not run, oldest first
  recognizing,    \* the recognizeStrokes calls in flight, in order of issue
  validating,     \* the validateMathStep calls in flight, in order of issue
  trail           \* what the last event was and what it found

\* The state of App and what FabricNotebookCanvas.handleSave has under way:
VARIABLES
  notebooks,       \* the list of saved notebooks
  currentNotebook, \* the notebook handed to the canvas, NullNotebook for null
  currentView,     \* appState.currentView
  isSaving,        \* isSaving of the canvas on the page
  saves,           \* the handleSave calls at their await, oldest first
  redirects,       \* the timeouts of onBack that are set and have not run
  existingIndex    \* what findIndex gave in the last handleSaveNotebook

\* What recognizeDrawing of HandwritingRecognitionService reads:
VARIABLES
  mathpixTested,      \* window.mathpixTested
  mathpixCredentials, \* VITE_MATHPIX_APP_ID and VITE_MATHPIX_APP_KEY are set
  canvas              \* the canvas handed to recognizeDrawing

serviceVars ==
  <<pc, entry, latex, context, solutionData, completion, outcome, previous,
    original>>

notebookVars ==
  <<steps, history, historyIndex, restored, validatingStep, isLoading,
    isDrawing, currentStrokes, stepStrokes, timers, recognizing, validating,
    trail>>

appVars ==
  <<notebooks, currentNotebook, currentView, isSaving, saves, redirects,
    existingIndex>>

recognitionVars == <<mathpixTested, mathpixCredentials, canvas>>

vars == <<serviceVars, notebookVars, appVars, recognitionVars>>

\* the most steps a notebook of the model holds
MaxNotebookSteps == 3

\* the ids a step of the model can carry
StepIds == 1..(MaxNotebookSteps + 1)

NoEvent ==
  [event |-> "none", stepId |-> 0, latex |-> <<>>, overtaken |-> FALSE,
   before |-> <<>>, undone |-> 0]

\* a notebook of the list: its id and its title
Board(id, title) == [id |-> id, title |-> title]

\* null in the place of a notebook
NullNotebook == Board(<<>>, <<>>)

\* a canvas: the number of its pixels that are not transparent
Canvas(pixelCount) == [pixelCount |-> pixelCount]

\* recognizeDrawing has not been called, and no credentials are set
RecognitionUnused ==
  /\ mathpixTested = FALSE
  /\ mathpixCredentials = FALSE
  /\ canvas = Canvas(0)

\* App as useState leaves it, with nothing in localStorage
AppUntouched ==
  /\ notebooks = <<>>
  /\ currentNotebook = NullNotebook
  /\ currentView = "landing"
  /\ isSaving = FALSE
  /\ saves = <<>>
  /\ redirects = 0
  /\ existingIndex = -1
  /\ RecognitionUnused

\* the notebook canvas is not on the page
NotebookUnmounted ==
  /\ steps = <<>>
  /\ history = <<>>
  /\ historyIndex = -1
  /\ restored = -1
  /\ validatingStep = 0
  /\ isLoading = FALSE
  /\ isDrawing = [id \in StepIds |-> FALSE]
  /\ currentStrokes = [id \in StepIds |-> 0]
  /\ stepStrokes = [id \in StepIds |-> 0]
  /\ timers = <<>>
  /\ recognizing = <<>>
  /\ validating = <<>>
  /\ trail = NoEvent
  /\ AppUntouched


NoResult == StepResult(FALSE, <<":none:">>, Undefined, -1)

\* the service after construction: no call under way
Init ==
  /\ pc = "idle"
  /\ entry = "none"
  /\ latex = <<>>
  /\ context = Undefined
  /\ solutionData = NoSolution
  /\ completion = NoCompletion
  /\ outcome = Pending
  /\ previous = NoResult
  /\ original = JNull
  /\ NotebookUnmounted

\* validateMathStep(l, c) runs to its await
CallValidateMathStep(l, c) ==
  /\ pc \in {"idle", "settled"}
  /\ pc' = "awaiting"
  /\ entry' = "validateMathStep"
  /\ latex' = l
  /\ context' = c
  /\ solutionData' = NoSolution
  /\ completion' = NoCompletion
  /\ outcome' = Pending
  /\ UNCHANGED <<notebookVars, appVars, recognitionVars>>
  /\ UNCHANGED <<previous, original>>

\* the awaited call hands back a response: the try block runs to its return
ValidateMathStepResumes(c) ==
  /\ pc = "awaiting"
  /\ entry = "validateMathStep"
  /\ ~CompletionThrows(c)
  /\ pc' = "settled"
  /\ completion' = c
  /\ outcome' = validateMathStep(latex, c, 0)
  /\ UNCHANGED <<notebookVars, appVars, recognitionVars>>
  /\ UNCHANGED <<entry, latex, context, solutionData, previous, original>>

\* the awaited call throws: the catch block runs, with Math.random() = rnd /
\* RandomGrain where the Heuristic Validator draws a wording
ValidateMathStepCatches(c, rnd) ==
  /\ pc = "awaiting"
  /\ entry = "validateMathStep"
  /\ CompletionThrows(c)
  /\ pc' = "settled"
  /\ completion' = c
  /\ outcome' = validateMathStep(latex, c, rnd)
  /\ UNCHANGED <<notebookVars, appVars, recognitionVars>>
  /\ UNCHANGED <<entry, latex, context, solutionData, previous, original>>

\* getStepHint(l, c) runs to its await
CallGetStepHint(l, c) ==
  /\ pc \in {"idle", "settled"}
  /\ pc' = "awaiting"
  /\ entry' = "getStepHint"
  /\ latex' = l
  /\ context' = c
  /\ solutionData' = NoSolution
  /\ completion' = NoCompletion
  /\ outcome' = Pending
  /\ UNCHANGED <<notebookVars, appVars, recognitionVars>>
  /\ UNCHANGED <<previous, original>>

\* the awaited call settles and getStepHint runs to its return
GetStepHintSettles(c) ==
  /\ pc = "awaiting"
  /\ entry = "getStepHint"
  /\ pc' = "settled"
  /\ completion' = c
  /\ outcome' = getStepHint(c)
  /\ UNCHANGED <<notebookVars, appVars, recognitionVars>>
  /\ UNCHANGED <<entry, latex, context, solutionData, previous, original>>

\* evaluateCompleteSolution(d) runs to its await
CallEvaluateCompleteSolution(d) ==
  /\ pc \in {"idle", "settled"}
  /\ pc' = "awaiting"
  /\ entry' = "evaluateCompleteSolution"
  /\ latex' = <<>>
  /\ context' = Undefined
  /\ solutionData' = d
  /\ completion' = NoCompletion
  /\ outcome' = Pending
  /\ UNCHANGED <<notebookVars, appVars, recognitionVars>>
  /\ UNCHANGED <<previous, original>>

\* the awaited call settles and evaluateCompleteSolution runs to its return
EvaluateCompleteSolutionSettles(c) ==
  /\ pc = "awaiting"
  /\ entry = "evaluateCompleteSolution"
  /\ pc' = "settled"
  /\ completion' = c
  /\ outcome' = evaluateCompleteSolution(solutionData, c)
  /\ UNCHANGED <<notebookVars, appVars, recognitionVars>>
  /\ UNCHANGED <<entry, latex, context, solutionData, previous, original>>

Next ==
  \/ \E l \in StepInputs, c \in ContextInputs : CallValidateMathStep(l, c)
  \/ \E c \in Responses(ValidationTexts) : ValidateMathStepResumes(c)
  \/ \E c \in Failures, rnd \in RandomValues : ValidateMathStepCatches(c, rnd)
  \/ \E l \in StepInputs, c \in ContextInputs : CallGetStepHint(l, c)
  \/ \E c \in Responses(HintTexts) \cup Failures : GetStepHintSettles(c)
  \/ \E d \in SolutionInputs : CallEvaluateCompleteSolution(d)
  \/ \E c \in Responses(EvaluationTexts) \cup Failures :
       EvaluateCompleteSolutionSettles(c)

Spec == Init /\ [][Next]_vars

\* ------------------------------------------------------------------------
\* The fallback evaluation on its own: evaluateCompleteSolution on solutions
\* long enough for a percentage to round up to a threshold, with the
\* Completion call failing
\* ------------------------------------------------------------------------

\* the most steps a long solution holds
MaxLongSteps == 23

\* a solution of n steps of which the first c are marked correct
LongSolution(n, c) ==
  [originalQuestion |-> <<"2", "x", " ", "+", " ", "3", " ", "=", " ", "1", "1">>,
   steps |-> [i \in 1..n |-> SolutionStep(i, <<"x", " ", "=", " ", "4">>, i <= c, <<>>)]]

LongSolutions ==
  UNION {{LongSolution(n, c) : c \in 0..n} : n \in 0..MaxLongSteps}

FallbackNext ==
  \/ \E d \in LongSolutions : CallEvaluateCompleteSolution(d)
  \/ \E c \in Failures : EvaluateCompleteSolutionSettles(c)

FallbackSpec == Init /\ [][FallbackNext]_vars

\* ------------------------------------------------------------------------
\* The Heuristic Validator on its own: fallbackValidation called again and
\* again on one latex string
\* ------------------------------------------------------------------------

\* the greatest operand of a step
MaxNum == 5

\* the greatest stated result of a step
MaxResult == 11

\* no space or one space around the signs of a step
Spacings == {<<>>, <<" ">>}

\* What a step is written from:
\*   "sum"    a op b = r
\*   "moved"  ax = b + c
\*   "check"  a = b
\*   "text"   the text itself
Shape(form, a, op, b, r, sp, text) ==
  [form |-> form, a |-> a, op |-> op, b |-> b, r |-> r, sp |-> sp,
   text |-> text]

\* the operator sign or the equals sign, spaced
Spaced(sign, sp) == sp \o <<sign>> \o sp

\* the latex of a shape
Write(shape) ==
  CASE shape.form = "sum" ->
         NatToString(shape.a) \o Spaced(shape.op, shape.sp)
           \o NatToString(shape.b) \o Spaced("=", shape.sp)
           \o NatToString(shape.r)
    [] shape.form = "moved" ->
         NatToString(shape.a) \o <<"x">> \o Spaced("=", shape.sp)
           \o NatToString(shape.b) \o Spaced("+", shape.sp)
           \o NatToString(shape.r)
    [] shape.form = "check" ->
         NatToString(shape.a) \o Spaced("=", shape.sp) \o NatToString(shape.b)
    [] OTHER -> shape.text

\* steps of the other rule categories, and steps no rule takes
OtherSteps ==
  StepInputs \cup
  {<<"2", "x", " ", "=", " ", "8">>,
   <<"8", "/", "2", " ", "=", " ", "4">>,
   <<"2", "(", "4", ")", " ", "+", " ", "3", " ", "=", " ", "1", "1">>,
   <<"\\", "f", "r", "a", "c", "{", "1", "}", "{", "2", "}">>,
   <<"1", "1", " ", "-", " ", "3">>,
   <<" ", "5", " ", "+", " ", "3", " ", "=", " ", "9", " ">>,
   <<"x", " ", "+", " ", "y">>,
   <<SqrtSign>>,
   <<"(", ")">>,
   <<"5", " ", "=", " ", "2", " ", "+", " ", "3">>,
   <<"x", " ", "=", " ", "2", " ", "+", " ", "3">>,
   <<"x", " ", "=", " ", "1", "1", " ", "-", " ", "3">>,
   <<"1", "1", " ", "=", " ", "1", "2">>,
   <<"=">>,
   <<"\\", "s", "q", "r", "t", "{", "}">>,
   <<" ", "\t", " ">>}

HeuristicShapes ==
  {Shape("sum", a, op, b, r, sp, <<>>) :
     a \in 0..MaxNum, op \in PlusMinus, b \in 0..MaxNum, r \in 0..MaxResult,
     sp \in Spacings}
  \cup {Shape("moved", a, "+", b, r, sp, <<>>) :
          a \in 1..MaxNum, b \in 0..MaxResult, r \in 0..MaxNum, sp \in Spacings}
  \cup {Shape("check", a, "=", b, 0, sp, <<>>) :
          a \in 0..MaxResult, b \in 0..MaxResult, sp \in Spacings}
  \cup {Shape("text", 0, "=", 0, 0, <<>>, text) : text \in OtherSteps}

\* a step is on the board; the validator has not run on it
HeuristicInit ==
  /\ pc = "idle"
  /\ entry = "fallbackValidation"
  /\ original \in HeuristicShapes
  /\ latex = Write(original)
  /\ context = Undefined
  /\ solutionData = NoSolution
  /\ completion = NoCompletion
  /\ outcome = NoResult
  /\ previous = NoResult
  /\ NotebookUnmounted

\* fallbackValidation(latex) runs, with Math.random() = rnd / RandomGrain
FallbackValidation(rnd) ==
  /\ pc' = "settled"
  /\ previous' = outcome
  /\ outcome' = fallbackValidation(latex, rnd)
  /\ UNCHANGED <<notebookVars, appVars, recognitionVars>>
  /\ UNCHANGED <<entry, latex, context, solutionData, completion, original>>

HeuristicNext == \E rnd \in RandomValues : FallbackValidation(rnd)

HeuristicSpec == HeuristicInit /\ [][HeuristicNext]_vars

\* ------------------------------------------------------------------------
\* The Response Normalizer on its own: a JSON object is written out, wrapped
\* as a completion wraps it, and recovered
\* ------------------------------------------------------------------------

\* one character of a string, as JSON.stringify writes it
EscapeChar(c) ==
  CASE c = Quote -> <<"\\", Quote>>
    [] c = "\\" -> <<"\\", "\\">>
    [] c = "\n" -> <<"\\", "n">>
    [] c = "\t" -> <<"\\", "t">>
    [] c = "\r" -> <<"\\", "r">>
    [] OTHER -> <<c>>

\* the characters lo..hi of a string, as JSON.stringify writes them
RECURSIVE EscapeRange(_, _, _)
EscapeRange(s, lo, hi) ==
  IF lo > hi THEN <<>>
  ELSE IF lo = hi THEN EscapeChar(s[lo])
  ELSE EscapeRange(s, lo, (lo + hi) \div 2)
         \o EscapeRange(s, ((lo + hi) \div 2) + 1, hi)

\* JSON.stringify(val)
RECURSIVE Stringify(_)
RECURSIVE StringifyElements(_, _)
RECURSIVE StringifyMembers(_, _)
Stringify(val) ==
  CASE val.t = "str" -> <<Quote>> \o EscapeRange(val.v, 1, Len(val.v)) \o <<Quote>>
    [] val.t = "num" -> NumberToString(val.v)
    [] val.t = "bool" -> IF val.v THEN LiteralTrue ELSE LiteralFalse
    [] val.t = "arr" -> <<"[">> \o StringifyElements(val.v, 1) \o <<"]">>
    [] val.t = "obj" -> <<"{">> \o StringifyMembers(val.v, 1) \o <<"}">>
    [] OTHER -> LiteralNull

StringifyElements(elems, k) ==
  IF k > Len(elems) THEN <<>>
  ELSE (IF k > 1 THEN <<",">> ELSE <<>>) \o Stringify(elems[k])
         \o StringifyElements(elems, k + 1)

StringifyMembers(members, k) ==
  IF k > Len(members) THEN <<>>
  ELSE (IF k > 1 THEN <<",">> ELSE <<>>)
         \o <<Quote>> \o EscapeRange(members[k].k, 1, Len(members[k].k))
         \o <<Quote, ":">> \o Stringify(members[k].val)
         \o StringifyMembers(members, k + 1)

\* string values: plain, with commas, braces, quotes, a backslash, a line
\* break, a lone closing brace, brackets
NormalizerStrings ==
  {<<"o", "k">>,
   <<"G", "o", "o", "d", ",", " ", "n", "i", "c", "e", " ", "w", "o", "r", "k">>,
   <<"u", "s", "e", " ", "{", "x", "}", " ", "h", "e", "r", "e">>,
   <<"s", "a", "y", " ", "\"", "h", "i", "\"", " ", "n", "o", "w">>,
   <<"a", "\\", "b">>,
   <<"t", "w", "o", "\n", "l", "i", "n", "e", "s">>,
   <<"}">>,
   <<"i", "t", "'", "s", " ", "[", "f", "i", "n", "e", "]">>}

\* the objects the two prompts ask for
ValidationObjects ==
  {JObj(<<Member(WordIsCorrect, JBool(isCorrect)),
          Member(WordFeedback, JStr(feedback)),
          Member(WordConfidence, JNum(confidence))>>) :
     isCorrect \in BOOLEAN, feedback \in NormalizerStrings,
     confidence \in {90, 100}}

EvaluationObjects ==
  {JObj(<<Member(WordScore, JNum(8500)),
          Member(WordFeedback, JStr(feedback)),
          Member(WordSuggestions, JArr(<<JStr(suggestion)>>))>>) :
     feedback \in NormalizerStrings, suggestion \in NormalizerStrings}

Wrappings == {"bare", "fenced", "prose"}

\* the JSON text alone, inside a code fence, or inside a code fence with
\* prose before and after
Wrap(wrapping, json) ==
  CASE wrapping = "bare" -> json
    [] wrapping = "fenced" -> FenceJson \o <<"\n">> \o json \o <<"\n">> \o Fence
    [] OTHER ->
         <<"H", "e", "r", "e", " ", "i", "t", " ", "i", "s", ":", "\n">>
           \o FenceJson \o <<"\n">> \o json \o <<"\n">> \o Fence
           \o <<"\n", "D", "o", "n", "e", ".">>

NormalizerInit ==
  /\ pc = "idle"
  /\ entry = "normalize"
  /\ latex = <<>>
  /\ context = Undefined
  /\ solutionData = NoSolution
  /\ completion = NoCompletion
  /\ outcome = Pending
  /\ previous = NoResult
  /\ original = JNull
  /\ NotebookUnmounted

\* a completion arrives whose content is the object obj, wrapped
Receive(obj, wrapping) ==
  /\ pc = "idle"
  /\ pc' = "received"
  /\ original' = obj
  /\ completion' = Content(Wrap(wrapping, Stringify(obj)))
  /\ UNCHANGED <<notebookVars, appVars, recognitionVars>>
  /\ UNCHANGED <<entry, latex, context, solutionData, outcome, previous>>

\* the normalizer runs on the content: trim, strip the fences, take the first
\* { to the last }, repair, JSON.parse
Normalize ==
  /\ pc = "received"
  /\ pc' = "normalized"
  /\ outcome' = StrictParse(completion.text)
  /\ UNCHANGED <<notebookVars, appVars, recognitionVars>>
  /\ UNCHANGED <<entry, latex, context, solutionData, completion, previous,
                 original>>

NormalizerNext ==
  \/ \E obj \in ValidationObjects \cup EvaluationObjects, wrapping \in Wrappings :
       Receive(obj, wrapping)
  \/ Normalize

NormalizerSpec == NormalizerInit /\ [][NormalizerNext]_vars

\* ------------------------------------------------------------------------
\* The Recognizer: HandwritingRecognitionService.recognizeWithMathpixCanvas
\* and MathRecognitionService.recognizeStrokes
\* ------------------------------------------------------------------------

\* The reply of the Mathpix call.  status is "network" when fetch rejects,
\* "failed" when response.ok is false, "ok" otherwise; error is the
\* truthiness of the error field of the body; a field of the body that is
\* not there is <<>> (a string field) or JUndefined (confidence).
MathpixReply(status, error, latex_styled, latexField, text, confidence) ==
  [status |-> status, error |-> error, latex_styled |-> latex_styled,
   latex |-> latexField, text |-> text, confidence |-> confidence]

\* the symbols the cleaning rewrites, one element each
TimesSign == ":times:"
DivSign == ":div:"
NeqSign == ":neq:"
LeqSign == ":leq:"
GeqSign == ":geq:"

\* [+\-=×÷^√∫∑∏<>≤≥≠]
MathSymbols ==
  {"+", "-", "=", TimesSign, DivSign, "^", SqrtSign, ":int:", ":sum:",
   ":prod:", "<", ">", LeqSign, GeqSign, NeqSign}

BackslashText == <<"\\", "t", "e", "x", "t">>

\* .replace(/^\\\(|\\\)$|\$\$|\$/g, ''): an opening \( that starts the
\* string, a closing \) that ends it and every dollar sign go
RemoveDelimiters(s) ==
  LET opens == OccursAt(s, <<"\\", "(">>, 1)
      closes == Len(s) >= 2 /\ OccursAt(s, <<"\\", ")">>, Len(s) - 1)
  IN KeepWhere(s, LAMBDA i : /\ ~(opens /\ i <= 2)
                             /\ ~(closes /\ i >= Len(s) - 1)
                             /\ s[i] # "$")

\* The match of /\s*\{\s*([^}]+)\s*\}/ at position i of s: from and to bound
\* the group, end is the position after the closing brace; end is 0 when
\* there is no match.  (The group takes every character up to the closing
\* brace; where only whitespace stands between the braces, the \s* before
\* the group gives the last of it back.)
BracedGroup(s, i) ==
  LET none == [from |-> 0, to |-> 0, end |-> 0]
      group(open, close, inner) ==
        IF close > Len(s) \/ close = open + 1 THEN none
        ELSE [from |-> IF inner < close THEN inner ELSE close - 1,
              to |-> close - 1, end |-> close + 1]
      opened(open) ==
        IF At(s, open) # "{" THEN none
        ELSE group(open, NextChar(s, open + 1, "}"),
                   NextNotIn(s, open + 1, Whitespace))
  IN opened(NextNotIn(s, i, Whitespace))

\* .replace(/\\text\s*\{\s*([^}]+)\s*\}/g, '$1'), one step for each match
RECURSIVE UnwrapText(_)
UnwrapText(s) ==
  LET matchAt(i) ==
        IF OccursAt(s, BackslashText, i)
        THEN BracedGroup(s, i + Len(BackslashText))
        ELSE [from |-> 0, to |-> 0, end |-> 0]
      replace(first, m) ==
        SubSeq(s, 1, first - 1) \o SubSeq(s, m.from, m.to)
          \o UnwrapText(Drop(s, m.end - 1))
      cut(first) == IF first = 0 THEN s ELSE replace(first, matchAt(first))
  IN After(s, cut(FirstSuch(Len(s), LAMBDA i : matchAt(i).end > 0)))

\* .replace(/\\frac\s*{\s*([^}]+)\s*}\s*{\s*([^}]+)\s*}/g, '\\frac{$1}{$2}'),
\* one step for each match
RECURSIVE FixFractions(_)
FixFractions(s) ==
  LET none == [from |-> 0, to |-> 0, end |-> 0]
      numerator(i) ==
        IF OccursAt(s, BackslashFrac, i)
        THEN BracedGroup(s, i + Len(BackslashFrac))
        ELSE none
      denominator(i) ==
        IF numerator(i).end > 0 THEN BracedGroup(s, numerator(i).end)
        ELSE none
      replace(first, n, d) ==
        SubSeq(s, 1, first - 1) \o BackslashFrac
          \o <<"{">> \o SubSeq(s, n.from, n.to) \o <<"}">>
          \o <<"{">> \o SubSeq(s, d.from, d.to) \o <<"}">>
          \o FixFractions(Drop(s, d.end - 1))
      cut(first) ==
        IF first = 0 THEN s
        ELSE replace(first, numerator(first), denominator(first))
  IN After(s, cut(FirstSuch(Len(s), LAMBDA i : denominator(i).end > 0)))

\* the command a symbol is rewritten to
SymbolCommand(c) ==
  CASE c = TimesSign -> <<"\\", "t", "i", "m", "e", "s">>
    [] c = DivSign -> <<"\\", "d", "i", "v">>
    [] c = NeqSign -> <<"\\", "n", "e", "q">>
    [] c = LeqSign -> <<"\\", "l", "e", "q">>
    [] c = GeqSign -> <<"\\", "g", "e", "q">>
    [] OTHER -> <<c>>

\* .replace(/×/g, '\\times') ... .replace(/≥/g, '\\geq'), on the characters
\* lo..hi of s
RECURSIVE RewriteSymbols(_, _, _)
RewriteSymbols(s, lo, hi) ==
  IF lo > hi THEN <<>>
  ELSE IF lo = hi THEN SymbolCommand(s[lo])
  ELSE RewriteSymbols(s, lo, (lo + hi) \div 2)
         \o RewriteSymbols(s, ((lo + hi) \div 2) + 1, hi)

\* cleanLatex; the same replacements clean the latex in
\* recognizeWithMathpixCanvas
cleanLatex(latexText) ==
  Then(RemoveDelimiters(latexText), LAMBDA a :
  Then(UnwrapText(a), LAMBDA b :
  Then(FixFractions(b), LAMBDA c :
  Then(RewriteSymbols(c, 1, Len(c)), LAMBDA d :
  trim(CollapseWhitespace(d))))))

\* responseData.text.match(/\$([^$]+)\$|\\\(([^)]+)\\\)/): the group of the
\* leftmost match, <<>> when nothing matches
MathMatch(text) ==
  LET dollarEnd(i) ==
        IF text[i] = "$" /\ NextChar(text, i + 1, "$") \in (i + 2)..Len(text)
        THEN NextChar(text, i + 1, "$") ELSE 0
      parenEnd(i) ==
        IF /\ OccursAt(text, <<"\\", "(">>, i)
           /\ NextChar(text, i + 2, ")") \in (i + 4)..Len(text)
           /\ text[NextChar(text, i + 2, ")") - 1] = "\\"
        THEN NextChar(text, i + 2, ")") - 1 ELSE 0
      group(i) ==
        IF i = 0 THEN <<>>
        ELSE IF dollarEnd(i) > 0 THEN SubSeq(text, i + 1, dollarEnd(i) - 1)
        ELSE SubSeq(text, i + 2, parenEnd(i) - 1)
  IN group(FirstSuch(Len(text), LAMBDA i : dollarEnd(i) > 0 \/ parenEnd(i) > 0))

\* "Try to extract LaTeX from various fields"
ExtractLatex(reply) ==
  IF reply.latex_styled # <<>> THEN reply.latex_styled
  ELSE IF reply.latex # <<>> THEN reply.latex
  ELSE IF reply.text = <<>> THEN <<>>
  ELSE IF MathMatch(reply.text) # <<>> THEN MathMatch(reply.text)
  ELSE IF HasChar(reply.text, MathSymbols) THEN reply.text
  ELSE <<>>

\* plainText is set in the branch that reads responseData.text
ExtractPlainText(reply) ==
  IF reply.latex_styled = <<>> /\ reply.latex = <<>> THEN reply.text ELSE <<>>

\* confidence || 0.9, a number in hundredths
ConfidenceOrDefault(confidence) ==
  IF Truthy(confidence) THEN confidence.v ELSE 90

\* Math.min(confidence, 1.0)
CappedConfidence(confidence) == IF confidence > 100 THEN 100 ELSE confidence

\* a RecognitionResult
RecognitionResult(latexText, plainText, confidence) ==
  [latex |-> latexText, plainText |-> plainText, confidence |-> confidence]

\* recognizeWithMathpixCanvas, from its fetch on.  With no latex extracted
\* the code reads data.text, and data is no name in scope: a ReferenceError.
\* The catch logs the error and throws it again.
recognizeWithMathpixCanvas(reply) ==
  IF reply.status = "network" THEN Rejected("NetworkError")
  ELSE IF reply.status = "failed" \/ reply.error THEN Rejected("Error")
  ELSE IF ExtractLatex(reply) = <<>> THEN Rejected("ReferenceError")
  ELSE Resolved(RecognitionResult(
         cleanLatex(ExtractLatex(reply)),
         ExtractPlainText(reply),
         CappedConfidence(ConfidenceOrDefault(reply.confidence))))

\* MathRecognitionService.recognizeStrokes, from its fetch on (its result has
\* no plainText)
recognizeStrokes(reply) ==
  IF reply.status = "network" THEN Rejected("NetworkError")
  ELSE IF reply.status = "failed" THEN Rejected("Error")
  ELSE Resolved(RecognitionResult(
         cleanLatex(IF reply.latex # <<>> THEN reply.latex
                    ELSE reply.latex_styled),
         <<>>,
         ConfidenceOrDefault(reply.confidence)))

\* the string fields of the bodies the model lets Mathpix answer with
ReplyFields ==
  {[latex_styled |-> <<"x", " ", "=", " ", "4">>, latex |-> <<>>, text |-> <<>>],
   [latex_styled |-> <<"\\", "(", " ", "2", "x", " ", "=", " ", "8", " ", "\\", ")">>, latex |-> <<"x", " ", "=", " ", "4">>, text |-> <<>>],
   [latex_styled |-> <<"$", "$">> \o <<"\\", "f", "r", "a", "c", " ", "{", "1", "}", " ", "{", " ", "2", " ", "}">> \o <<"$", "$">>, latex |-> <<>>,
    text |-> <<>>],
   [latex_styled |-> <<>>, latex |-> <<"\\", "t", "e", "x", "t", "{", " ", "a", "b", " ", "}", " ", "+", " ", "1">>, text |-> <<"a", "b", " ", "+", " ", "1">>],
   [latex_styled |-> <<>>, latex |-> <<>>, text |-> <<"s", "o", " ", "$", "x", " ", "=", " ", "4", "$", " ", "t", "h", "e", "n">>],
   [latex_styled |-> <<>>, latex |-> <<>>, text |-> <<"w", "e", " ", "g", "e", "t", " ", "\\", "(", "2", "x", "\\", ")", " ", "o", "k">>],
   [latex_styled |-> <<>>, latex |-> <<>>,
    text |-> <<"3", " ", TimesSign, " ", "4", " ", "=", " ", "1", "2">>],
   [latex_styled |-> <<" ", "a", " ", " ", LeqSign, " ", " ", "b", " ">>,
    latex |-> <<>>, text |-> <<>>],
   [latex_styled |-> <<>>, latex |-> <<>>, text |-> <<"h", "e", "l", "l", "o">>],
   [latex_styled |-> <<>>, latex |-> <<>>, text |-> <<>>]}

\* the confidence of the body: missing, null, or a number in hundredths
ReplyConfidences ==
  {JUndefined, JNull, JNum(-30), JNum(0), JNum(50), JNum(100), JNum(170)}

MathpixReplies ==
  {MathpixReply("ok", FALSE, f.latex_styled, f.latex, f.text, c) :
     f \in ReplyFields, c \in ReplyConfidences}
  \cup {MathpixReply("ok", TRUE, <<>>, <<>>, <<>>, JUndefined),
        MathpixReply("failed", TRUE, <<>>, <<>>, <<>>, JUndefined),
        MathpixReply("network", FALSE, <<>>, <<>>, <<>>, JUndefined)}

RecognizerInit ==
  /\ pc = "idle"
  /\ entry = "none"
  /\ latex = <<>>
  /\ context = Undefined
  /\ solutionData = NoSolution
  /\ completion = NoCompletion
  /\ outcome = Pending
  /\ previous = NoResult
  /\ original = JNull
  /\ NotebookUnmounted

\* recognizeWithMathpixCanvas(canvas, appId, appKey) runs to its fetch
CallRecognizeWithMathpixCanvas ==
  /\ pc \in {"idle", "settled"}
  /\ pc' = "awaiting"
  /\ entry' = "recognizeWithMathpixCanvas"
  /\ completion' = NoCompletion
  /\ outcome' = Pending
  /\ UNCHANGED <<notebookVars, appVars, recognitionVars>>
  /\ UNCHANGED <<latex, context, solutionData, previous, original>>

\* the Mathpix call ends and recognizeWithMathpixCanvas runs to its end
RecognizeWithMathpixCanvasSettles(reply) ==
  /\ pc = "awaiting"
  /\ entry = "recognizeWithMathpixCanvas"
  /\ pc' = "settled"
  /\ completion' = reply
  /\ outcome' = recognizeWithMathpixCanvas(reply)
  /\ UNCHANGED <<notebookVars, appVars, recognitionVars>>
  /\ UNCHANGED <<entry, latex, context, solutionData, previous, original>>

\* recognizeStrokes(strokes) runs to its fetch
CallRecognizeStrokes ==
  /\ pc \in {"idle", "settled"}
  /\ pc' = "awaiting"
  /\ entry' = "recognizeStrokes"
  /\ completion' = NoCompletion
  /\ outcome' = Pending
  /\ UNCHANGED <<notebookVars, appVars, recognitionVars>>
  /\ UNCHANGED <<latex, context, solutionData, previous, original>>

\* the Mathpix call ends and recognizeStrokes runs to its end
RecognizeStrokesSettles(reply) ==
  /\ pc = "awaiting"
  /\ entry = "recognizeStrokes"
  /\ pc' = "settled"
  /\ completion' = reply
  /\ outcome' = recognizeStrokes(reply)
  /\ UNCHANGED <<notebookVars, appVars, recognitionVars>>
  /\ UNCHANGED <<entry, latex, context, solutionData, previous, original>>

RecognizerNext ==
  \/ CallRecognizeWithMathpixCanvas
  \/ \E reply \in MathpixReplies : RecognizeWithMathpixCanvasSettles(reply)
  \/ CallRecognizeStrokes
  \/ \E reply \in MathpixReplies : RecognizeStrokesSettles(reply)

RecognizerSpec == RecognizerInit /\ [][RecognizerNext]_vars

\* ------------------------------------------------------------------------
\* HandwritingRecognitionService.recognizeDrawing
\* ------------------------------------------------------------------------

StepByStepResults ==
  << RecognitionResult(<<"2", "x", " ", "+", " ", "3", " ", "=", " ", "1", "1">>,
                       <<"2", "x", " ", "+", " ", "3", " ", "=", " ", "1", "1">>, 95),
     RecognitionResult(<<"2", "x", " ", "=", " ", "1", "1", " ", "-", " ", "3">>,
                       <<"2", "x", " ", "=", " ", "1", "1", " ", "-", " ", "3">>, 93),
     RecognitionResult(<<"2", "x", " ", "=", " ", "8">>,
                       <<"2", "x", " ", "=", " ", "8">>, 92),
     RecognitionResult(<<"x", " ", "=", " ", "\\", "f", "r", "a", "c", "{", "8", "}", "{", "2", "}">>,
                       <<"x", " ", "=", " ", "8", "/", "2">>, 90),
     RecognitionResult(<<"x", " ", "=", " ", "4">>,
                       <<"x", " ", "=", " ", "4">>, 95),
     RecognitionResult(<<"2", "(", "4", ")", " ", "+", " ", "3", " ", "=", " ", "1", "1">>,
                       <<"2", "(", "4", ")", " ", "+", " ", "3", " ", "=", " ", "1", "1">>, 88),
     RecognitionResult(<<"8", " ", "+", " ", "3", " ", "=", " ", "1", "1">>,
                       <<"8", " ", "+", " ", "3", " ", "=", " ", "1", "1">>, 89),
     RecognitionResult(<<"1", "1", " ", "=", " ", "1", "1">>,
                       <<"1", "1", " ", "=", " ", "1", "1">>, 92) >>

AlternativeResults ==
  << RecognitionResult(<<"3", "x", " ", "-", " ", "2", " ", "=", " ", "7">>,
                       <<"3", "x", " ", "-", " ", "2", " ", "=", " ", "7">>, 94),
     RecognitionResult(<<"3", "x", " ", "=", " ", "9">>,
                       <<"3", "x", " ", "=", " ", "9">>, 91),
     RecognitionResult(<<"x", " ", "=", " ", "3">>,
                       <<"x", " ", "=", " ", "3">>, 93),
     RecognitionResult(<<"y", " ", "+", " ", "5", " ", "=", " ", "1", "2">>,
                       <<"y", " ", "+", " ", "5", " ", "=", " ", "1", "2">>, 89),
     RecognitionResult(<<"y", " ", "=", " ", "7">>,
                       <<"y", " ", "=", " ", "7">>, 92) >>

AllResults == StepByStepResults \o AlternativeResults

\* getIntelligentMockResult of a canvas that has a 2d context, with
\* Math.random() = rnd / RandomGrain
getIntelligentMockResult(drawn, rnd) ==
  LET baseIndex == (drawn.pixelCount \div 150) % Len(StepByStepResults)
      randomOffset == (rnd * 3) \div RandomGrain
      index == (baseIndex + randomOffset) % Len(AllResults)
      resultIndex == IF index < Len(AllResults) - 1 THEN index
                     ELSE Len(AllResults) - 1
  IN AllResults[resultIndex + 1]

\* testMathpixCredentials: true on the status 200, false on any other status
\* and when the fetch throws
testMathpixCredentials(status) == status = "200"

\* the Mathpix call of recognizeDrawing with its catch left out
Rethrown(result, mock) == result

\* the try and catch of recognizeDrawing around the Mathpix call: an error
\* is logged and the mock result returned
MathpixOrMock(result, mock) ==
  IF result.settled = "rejected" THEN Resolved(mock) ELSE result

\* the numbers of pixels drawn on the canvases handed over
PixelCounts == {0, 149, 150, 1050, 1200}

\* how the test call of testMathpixCredentials ends
TestStatuses == {"200", "401", "network"}

\* the service in a build with or without Mathpix credentials
DrawingInit ==
  /\ pc = "idle"
  /\ entry = "none"
  /\ latex = <<>>
  /\ context = Undefined
  /\ solutionData = NoSolution
  /\ completion = NoCompletion
  /\ outcome = Pending
  /\ previous = NoResult
  /\ original = JNull
  /\ steps = <<>>
  /\ history = <<>>
  /\ historyIndex = -1
  /\ restored = -1
  /\ validatingStep = 0
  /\ isLoading = FALSE
  /\ isDrawing = [id \in StepIds |-> FALSE]
  /\ currentStrokes = [id \in StepIds |-> 0]
  /\ stepStrokes = [id \in StepIds |-> 0]
  /\ timers = <<>>
  /\ recognizing = <<>>
  /\ validating = <<>>
  /\ trail = NoEvent
  /\ notebooks = <<>>
  /\ currentNotebook = NullNotebook
  /\ currentView = "landing"
  /\ isSaving = FALSE
  /\ saves = <<>>
  /\ redirects = 0
  /\ existingIndex = -1
  /\ mathpixTested = FALSE
  /\ mathpixCredentials \in BOOLEAN
  /\ canvas = Canvas(0)

\* recognizeDrawing(drawn) runs to its first await, or to its end when no
\* credentials are set
CallRecognizeDrawing(drawn, rnd) ==
  /\ pc \in {"idle", "settled"}
  /\ entry' = "recognizeDrawing"
  /\ canvas' = drawn
  /\ completion' = NoCompletion
  /\ pc' = (IF ~mathpixCredentials THEN "settled"
            ELSE IF ~mathpixTested THEN "testing"
            ELSE "awaiting")
  /\ outcome' = (IF ~mathpixCredentials
                 THEN Resolved(getIntelligentMockResult(drawn, rnd))
                 ELSE Pending)
  /\ UNCHANGED <<mathpixTested, mathpixCredentials>>
  /\ UNCHANGED <<notebookVars, appVars>>
  /\ UNCHANGED <<latex, context, solutionData, previous, original>>

\* the test call ends: window.mathpixTested is set, and recognizeDrawing runs
\* to the Mathpix call, or to its end when the test failed
TestMathpixCredentialsSettles(status, rnd) ==
  /\ pc = "testing"
  /\ entry = "recognizeDrawing"
  /\ mathpixTested' = TRUE
  /\ pc' = (IF testMathpixCredentials(status) THEN "awaiting" ELSE "settled")
  /\ outcome' = (IF testMathpixCredentials(status) THEN Pending
                 ELSE Resolved(getIntelligentMockResult(canvas, rnd)))
  /\ UNCHANGED <<mathpixCredentials, canvas>>
  /\ UNCHANGED <<notebookVars, appVars>>
  /\ UNCHANGED <<entry, latex, context, solutionData, completion, previous,
                 original>>

\* the Mathpix call ends and recognizeDrawing runs to its end
RecognizeDrawingSettles(reply, rnd) ==
  /\ pc = "awaiting"
  /\ entry = "recognizeDrawing"
  /\ pc' = "settled"
  /\ completion' = reply
  /\ outcome' = MathpixOrMock(recognizeWithMathpixCanvas(reply),
                              getIntelligentMockResult(canvas, rnd))
  /\ UNCHANGED recognitionVars
  /\ UNCHANGED <<notebookVars, appVars>>
  /\ UNCHANGED <<entry, latex, context, solutionData, previous, original>>

DrawingNext ==
  \/ \E drawn \in PixelCounts, rnd \in RandomValues :
       CallRecognizeDrawing(Canvas(drawn), rnd)
  \/ \E status \in TestStatuses, rnd \in RandomValues :
       TestMathpixCredentialsSettles(status, rnd)
  \/ \E reply \in MathpixReplies, rnd \in RandomValues :
       RecognizeDrawingSettles(reply, rnd)

DrawingSpec == DrawingInit /\ [][DrawingNext]_vars

\* ------------------------------------------------------------------------
\* The notebook canvas: FabricNotebookCanvas
\* ------------------------------------------------------------------------

\* the longest history, the most strokes on one step and the most calls of
\* one kind in flight that the model follows
MaxHistory == 5
MaxStrokes == 2
MaxInFlight == 2

\* the delays of the timeouts, in milliseconds
DebounceDelay == 200
AutoAddDelay == 1000

\* the texts the Recognizer answers with, and the text the user types into the
\* latex input
LatexTexts == {<<"x">>, <<"y">>}
TypedTexts == {<<"x">>}

\* the strokes on all the steps together
RECURSIVE StrokesUpTo(_, _)
StrokesUpTo(counts, id) ==
  IF id = 0 THEN 0 ELSE counts[id] + StrokesUpTo(counts, id - 1)

\* validationResult: undefined
NoValidation == [given |-> FALSE, isCorrect |-> FALSE, of |-> <<>>]

\* the result of validateMathStep, with the latex it was computed from
ValidationOf(isCorrect, latexText) ==
  [given |-> TRUE, isCorrect |-> isCorrect, of |-> latexText]

\* a NotebookStep
NotebookStep(id, latexText, status, isChecked, validationResult) ==
  [id |-> id, latex |-> latexText, status |-> status, isChecked |-> isChecked,
   validationResult |-> validationResult]

\* const newStep = { id, content: '', latex: '', status: 'current', ... }
NewStep(id) == NotebookStep(id, <<>>, "current", FALSE, NoValidation)

\* steps.find(s => s.id === stepId): the position of the step, 0 when no step
\* has the id
FindStep(list, stepId) ==
  IF \E i \in 1..Len(list) : list[i].id = stepId
  THEN CHOOSE i \in 1..Len(list) :
         /\ list[i].id = stepId
         /\ \A j \in 1..(i - 1) : list[j].id # stepId
  ELSE 0

\* a debouncedRecognition that leaves the step as it is
RecognitionDropped(list, stepId, text) == list

\* prev.map((step, index) => index === stepId - 1
\*   ? { ...step, latex: result.latex, content: result.latex, status: 'current' }
\*   : step)
Recognized(list, stepId, text) ==
  [i \in 1..Len(list) |->
     IF i - 1 = stepId - 1
     THEN [list[i] EXCEPT !.latex = text, !.status = "current"]
     ELSE list[i]]

\* the onChange of the latex input
LatexChanged(list, stepId, text) ==
  [i \in 1..Len(list) |->
     IF i - 1 = stepId - 1
     THEN [list[i] EXCEPT !.latex = text, !.status = "current",
                          !.isChecked = FALSE,
                          !.validationResult = NoValidation]
     ELSE list[i]]

\* "Clear validation results when drawing on a wrong step"
DrawingStarted(list, stepId) ==
  [i \in 1..Len(list) |->
     IF i - 1 = stepId - 1 /\ (list[i].status = "incorrect" \/ list[i].isChecked)
     THEN [list[i] EXCEPT !.status = "current", !.isChecked = FALSE,
                          !.validationResult = NoValidation]
     ELSE list[i]]

\* "Update step status to checking"
Checking(list, stepId) ==
  [i \in 1..Len(list) |->
     IF list[i].id = stepId THEN [list[i] EXCEPT !.status = "checking"]
     ELSE list[i]]

\* "Update step with validation result"
Validated(list, stepId, result) ==
  [i \in 1..Len(list) |->
     IF list[i].id = stepId
     THEN [list[i] EXCEPT
             !.status = IF result.isCorrect THEN "correct" ELSE "incorrect",
             !.isChecked = TRUE,
             !.validationResult = result]
     ELSE list[i]]

\* a timeout that is set: the function it will call with its arguments, its
\* delay, whether the delay has passed, and whether the function that set it
\* still holds its id (in timeoutId)
Timer(fn, stepId, strokes, length, delay, held) ==
  [fn |-> fn, stepId |-> stepId, strokes |-> strokes, length |-> length,
   delay |-> delay, ready |-> FALSE, held |-> held]

\* s without its element i
RemoveAt(s, i) == SubSeq(s, 1, i - 1) \o SubSeq(s, i + 1, Len(s))

\* clearTimeout(timeoutId)
ClearTimeout(list) ==
  IF \E i \in 1..Len(list) : list[i].held
  THEN RemoveAt(list, CHOOSE i \in 1..Len(list) : list[i].held)
  ELSE list

\* debounce(func, delay): the call of the function it returns
Debounced(list, fn, stepId, strokes, delay) ==
  Append(ClearTimeout(list), Timer(fn, stepId, strokes, 0, delay, TRUE))

\* a call in flight; overtaken says that a call for the same step issued
\* after it has ended already
Call(stepId, latexText, strokes, length) ==
  [stepId |-> stepId, latex |-> latexText, strokes |-> strokes,
   length |-> length, overtaken |-> FALSE]

\* the calls in flight once call i has ended
Ended(calls, i) ==
  LET marked == [j \in 1..Len(calls) |->
                   IF j < i /\ calls[j].stepId = calls[i].stepId
                   THEN [calls[j] EXCEPT !.overtaken = TRUE]
                   ELSE calls[j]]
  IN RemoveAt(marked, i)

\* what the last event was: the step and the text it was about, whether it
\* ended a call that was overtaken (for an undo: whether there was a snapshot
\* to go back to), the steps before the undo; undone counts the runs of
\* handleUndo and handleRedo so far
Event(event, stepId, text, overtaken, before) ==
  [event |-> event, stepId |-> stepId, latex |-> text, overtaken |-> overtaken,
   before |-> before, undone |-> trail.undone]

\* an event the properties do not look at
Unrecorded == [NoEvent EXCEPT !.undone = trail.undone]

\* the most runs of handleUndo and handleRedo the model follows
MaxUndo == 2

\* there is room for one more snapshot
HistoryRoom == historyIndex + 2 <= MaxHistory

\* setSteps with an array of its own, and the effect that follows the
\* render: "Save to history when steps change"
SetSteps(list) ==
  /\ steps' = list
  /\ restored' = -1
  /\ IF Len(list) > 0
     THEN /\ history' = Append(SubSeq(history, 1, historyIndex + 1), list)
          /\ historyIndex' = historyIndex + 1
     ELSE UNCHANGED <<history, historyIndex>>

\* setSteps(history[newIndex]); setHistoryIndex(newIndex), and the effect
\* that follows the render where steps is another array than before
ShowSnapshot(newIndex) ==
  IF restored = newIndex
  THEN /\ historyIndex' = newIndex
       /\ UNCHANGED <<steps, history, restored>>
  ELSE /\ steps' = history[newIndex + 1]
       /\ restored' = newIndex
       /\ history' = Append(SubSeq(history, 1, newIndex + 1),
                            history[newIndex + 1])
       /\ historyIndex' = newIndex + 1

\* the steps the canvas starts from: the first step of a new notebook, or
\* the steps of a notebook that was saved with two steps typed in
OpenedNotebooks ==
  {<<NewStep(1)>>,
   <<NotebookStep(1, <<"x">>, "current", FALSE, NoValidation),
     NotebookStep(2, <<"y">>, "current", FALSE, NoValidation)>>}

\* the notebook canvas is on the page: the problem is set and the first step
\* has been made, or an existing notebook has been loaded; the steps are
\* saved to the history
NotebookInit ==
  /\ pc = "idle"
  /\ entry = "none"
  /\ latex = <<>>
  /\ context = Undefined
  /\ solutionData = NoSolution
  /\ completion = NoCompletion
  /\ outcome = Pending
  /\ previous = NoResult
  /\ original = JNull
  /\ steps \in OpenedNotebooks
  /\ history = <<steps>>
  /\ historyIndex = 0
  /\ restored = -1
  /\ validatingStep = 0
  /\ isLoading = FALSE
  /\ isDrawing = [id \in StepIds |-> FALSE]
  /\ currentStrokes = [id \in StepIds |-> 0]
  /\ stepStrokes = [id \in StepIds |-> 0]
  /\ timers = <<>>
  /\ recognizing = <<>>
  /\ validating = <<>>
  /\ trail = NoEvent
  /\ AppUntouched

\* a click on "+ Add Step": addNewStep of the render on the page
AddNewStep ==
  /\ Len(steps) < MaxNotebookSteps
  /\ HistoryRoom
  /\ SetSteps(Append(steps, NewStep(Len(steps) + 1)))
  /\ trail' = Unrecorded
  /\ UNCHANGED <<validatingStep, isLoading, isDrawing, currentStrokes,
                 stepStrokes, timers, recognizing, validating>>
  /\ UNCHANGED <<serviceVars, appVars, recognitionVars>>

\* the user edits the latex input of the step at position p
ChangeLatex(p, text) ==
  /\ p \in 1..Len(steps)
  /\ HistoryRoom
  /\ SetSteps(LatexChanged(steps, steps[p].id, text))
  /\ trail' = Unrecorded
  /\ UNCHANGED <<validatingStep, isLoading, isDrawing, currentStrokes,
                 stepStrokes, timers, recognizing, validating>>
  /\ UNCHANGED <<serviceVars, appVars, recognitionVars>>

\* a click on "Check Step" of the step at position p: handleValidateStep up
\* to its await.  The button is there for a step with latex that is not
\* checked, and is disabled for the step that validatingStep names.
HandleValidateStep(p) ==
  /\ p \in 1..Len(steps)
  /\ steps[p].latex # <<>>
  /\ ~steps[p].isChecked
  /\ validatingStep # steps[p].id
  /\ steps[FindStep(steps, steps[p].id)].latex # <<>>
  /\ Len(validating) < MaxInFlight
  /\ HistoryRoom
  /\ validatingStep' = steps[p].id
  /\ isLoading' = TRUE
  /\ SetSteps(Checking(steps, steps[p].id))
  /\ validating' =
       Append(validating,
              Call(steps[p].id, steps[FindStep(steps, steps[p].id)].latex, 0,
                   Len(steps)))
  /\ trail' = Unrecorded
  /\ UNCHANGED <<isDrawing, currentStrokes, stepStrokes, timers, recognizing>>
  /\ UNCHANGED <<serviceVars, appVars, recognitionVars>>

\* validateMathStep of call i resolves and handleValidateStep runs to its
\* end; a correct step sets the timeout that adds the next step
ValidationResolves(i, isCorrect) ==
  /\ i \in 1..Len(validating)
  /\ HistoryRoom
  /\ SetSteps(Validated(steps, validating[i].stepId,
                        ValidationOf(isCorrect, validating[i].latex)))
  /\ timers' =
       IF isCorrect
       THEN Append(timers, Timer("addNewStep", validating[i].stepId, 0,
                                 validating[i].length, AutoAddDelay, FALSE))
       ELSE timers
  /\ validatingStep' = 0
  /\ isLoading' = FALSE
  /\ validating' = Ended(validating, i)
  /\ trail' = Event("validated", validating[i].stepId, validating[i].latex,
                    validating[i].overtaken, <<>>)
  /\ UNCHANGED <<isDrawing, currentStrokes, stepStrokes, recognizing>>
  /\ UNCHANGED <<serviceVars, appVars, recognitionVars>>

\* the delay of timeout i has passed (a timeout set earlier with no longer a
\* delay is due before it)
DelayElapses(i) ==
  /\ i \in 1..Len(timers)
  /\ ~timers[i].ready
  /\ \A j \in 1..(i - 1) : timers[j].delay <= timers[i].delay => timers[j].ready
  /\ timers' = [timers EXCEPT ![i].ready = TRUE]
  /\ UNCHANGED <<steps, history, historyIndex, restored, validatingStep,
                 isLoading, isDrawing, currentStrokes, stepStrokes,
                 recognizing, validating, trail>>
  /\ UNCHANGED <<serviceVars, appVars, recognitionVars>>

\* the timeout of a correct step runs: addNewStep of the render in which the
\* step was sent to validation
AutoAddNewStep(i) ==
  /\ i \in 1..Len(timers)
  /\ timers[i].fn = "addNewStep"
  /\ timers[i].ready
  /\ Len(steps) < MaxNotebookSteps
  /\ HistoryRoom
  /\ SetSteps(Append(steps, NewStep(timers[i].length + 1)))
  /\ timers' = RemoveAt(timers, i)
  /\ trail' = Unrecorded
  /\ UNCHANGED <<validatingStep, isLoading, isDrawing, currentStrokes,
                 stepStrokes, recognizing, validating>>
  /\ UNCHANGED <<serviceVars, appVars, recognitionVars>>

\* handleUndo
HandleUndo ==
  /\ trail.undone < MaxUndo
  /\ IF historyIndex > 0
     THEN ShowSnapshot(historyIndex - 1)
     ELSE UNCHANGED <<steps, history, historyIndex, restored>>
  /\ trail' = [Event("handleUndo", 0, <<>>, historyIndex > 0, steps)
                 EXCEPT !.undone = @ + 1]
  /\ UNCHANGED <<validatingStep, isLoading, isDrawing, currentStrokes,
                 stepStrokes, timers, recognizing, validating>>
  /\ UNCHANGED <<serviceVars, appVars, recognitionVars>>

\* handleRedo
HandleRedo ==
  /\ trail.undone < MaxUndo
  /\ historyIndex < Len(history) - 1 => historyIndex + 3 <= MaxHistory
  /\ IF historyIndex < Len(history) - 1
     THEN ShowSnapshot(historyIndex + 1)
     ELSE UNCHANGED <<steps, history, historyIndex, restored>>
  /\ trail' = [(IF trail.event = "handleUndo"
                  THEN Event("handleRedo", 1, <<>>, trail.overtaken, trail.before)
                  ELSE Event("handleRedo", 0, <<>>, FALSE, <<>>))
                 EXCEPT !.undone = @ + 1]
  /\ UNCHANGED <<validatingStep, isLoading, isDrawing, currentStrokes,
                 stepStrokes, timers, recognizing, validating>>
  /\ UNCHANGED <<serviceVars, appVars, recognitionVars>>

\* handlePointerDown on the canvas of the step at position p
HandlePointerDown(p) ==
  /\ p \in 1..Len(steps)
  /\ \A id \in StepIds : ~isDrawing[id]
  /\ HistoryRoom
  /\ isDrawing' = [isDrawing EXCEPT ![steps[p].id] = TRUE]
  /\ currentStrokes' = [currentStrokes EXCEPT ![steps[p].id] = 1]
  /\ SetSteps(DrawingStarted(steps, steps[p].id))
  /\ trail' = Unrecorded
  /\ UNCHANGED <<validatingStep, isLoading, stepStrokes, timers, recognizing,
                 validating>>
  /\ UNCHANGED <<serviceVars, appVars, recognitionVars>>

\* handlePointerMove: one more point (the model counts to two)
HandlePointerMove(p) ==
  /\ p \in 1..Len(steps)
  /\ isDrawing[steps[p].id]
  /\ currentStrokes[steps[p].id] < 2
  /\ currentStrokes' = [currentStrokes EXCEPT ![steps[p].id] = @ + 1]
  /\ trail' = Unrecorded
  /\ UNCHANGED <<steps, history, historyIndex, restored, validatingStep,
                 isLoading, isDrawing, stepStrokes, timers, recognizing,
                 validating>>
  /\ UNCHANGED <<serviceVars, appVars, recognitionVars>>

\* handlePointerUp: a stroke of more than one point is kept and sent to the
\* debounced recognition
HandlePointerUp(p) ==
  /\ p \in 1..Len(steps)
  /\ isDrawing[steps[p].id]
  /\ currentStrokes[steps[p].id] > 1
       => StrokesUpTo(stepStrokes, MaxNotebookSteps + 1) < MaxStrokes
  /\ IF currentStrokes[steps[p].id] > 1
     THEN /\ stepStrokes' = [stepStrokes EXCEPT ![steps[p].id] = @ + 1]
          /\ timers' = Debounced(timers, "debouncedRecognition", steps[p].id,
                                 stepStrokes[steps[p].id] + 1, DebounceDelay)
     ELSE UNCHANGED <<stepStrokes, timers>>
  /\ isDrawing' = [isDrawing EXCEPT ![steps[p].id] = FALSE]
  /\ currentStrokes' = [currentStrokes EXCEPT ![steps[p].id] = 0]
  /\ trail' = Unrecorded
  /\ UNCHANGED <<steps, history, historyIndex, restored, validatingStep,
                 isLoading, recognizing, validating>>
  /\ UNCHANGED <<serviceVars, appVars, recognitionVars>>

\* the timeout of the debounced recognition runs: debouncedRecognition up to
\* its await
DebouncedRecognition(i) ==
  /\ i \in 1..Len(timers)
  /\ timers[i].fn = "debouncedRecognition"
  /\ timers[i].ready
  /\ timers[i].strokes # 0
  /\ Len(recognizing) < MaxInFlight
  /\ recognizing' =
       Append(recognizing, Call(timers[i].stepId, <<>>, timers[i].strokes, 0))
  /\ timers' = RemoveAt(timers, i)
  /\ trail' = Unrecorded
  /\ UNCHANGED <<steps, history, historyIndex, restored, validatingStep,
                 isLoading, isDrawing, currentStrokes, stepStrokes, validating>>
  /\ UNCHANGED <<serviceVars, appVars, recognitionVars>>

\* recognizeStrokes of call i resolves with text and debouncedRecognition
\* runs to its end
RecognitionResolves(i, text) ==
  /\ i \in 1..Len(recognizing)
  /\ text # <<>> => HistoryRoom
  /\ IF text # <<>>
     THEN SetSteps(Recognized(steps, recognizing[i].stepId, text))
     ELSE UNCHANGED <<steps, history, historyIndex, restored>>
  /\ recognizing' = Ended(recognizing, i)
  /\ trail' = Event("recognized", recognizing[i].stepId, text,
                    recognizing[i].overtaken, <<>>)
  /\ UNCHANGED <<validatingStep, isLoading, isDrawing, currentStrokes,
                 stepStrokes, timers, validating>>
  /\ UNCHANGED <<serviceVars, appVars, recognitionVars>>

\* recognizeStrokes of call i rejects: the catch of debouncedRecognition
\* logs the error
RecognitionRejects(i) ==
  /\ i \in 1..Len(recognizing)
  /\ recognizing' = Ended(recognizing, i)
  /\ trail' = Event("recognition error", recognizing[i].stepId, <<>>,
                    recognizing[i].overtaken, <<>>)
  /\ UNCHANGED <<steps, history, historyIndex, restored, validatingStep,
                 isLoading, isDrawing, currentStrokes, stepStrokes, timers,
                 validating>>
  /\ UNCHANGED <<serviceVars, appVars, recognitionVars>>

NotebookNext ==
  \/ AddNewStep
  \/ \E p \in 1..MaxNotebookSteps, text \in TypedTexts : ChangeLatex(p, text)
  \/ \E p \in 1..MaxNotebookSteps : HandleValidateStep(p)
  \/ \E i \in 1..MaxInFlight, isCorrect \in BOOLEAN :
       ValidationResolves(i, isCorrect)
  \/ \E i \in 1..(2 * MaxInFlight + 1) : DelayElapses(i)
  \/ \E i \in 1..(2 * MaxInFlight + 1) : AutoAddNewStep(i)
  \/ HandleUndo
  \/ HandleRedo
  \/ \E p \in 1..MaxNotebookSteps : HandlePointerDown(p)
  \/ \E p \in 1..MaxNotebookSteps : HandlePointerMove(p)
  \/ \E p \in 1..MaxNotebookSteps : HandlePointerUp(p)
  \/ \E i \in 1..(2 * MaxInFlight + 1) : DebouncedRecognition(i)
  \/ \E i \in 1..MaxInFlight, text \in LatexTexts \cup {<<>>} :
       RecognitionResolves(i, text)
  \/ \E i \in 1..MaxInFlight : RecognitionRejects(i)

NotebookSpec == NotebookInit /\ [][NotebookNext]_vars

\* The drawing on the steps alone, with the scheduling the browser gives:
\* a timeout whose delay has passed runs, and a call in flight ends
StrokeNext ==
  \/ \E p \in 1..MaxNotebookSteps : HandlePointerDown(p)
  \/ \E p \in 1..MaxNotebookSteps : HandlePointerMove(p)
  \/ \E p \in 1..MaxNotebookSteps : HandlePointerUp(p)
  \/ \E i \in 1..(2 * MaxInFlight + 1) : DelayElapses(i)
  \/ \E i \in 1..(2 * MaxInFlight + 1) : DebouncedRecognition(i)
  \/ \E i \in 1..MaxInFlight, text \in LatexTexts \cup {<<>>} :
       RecognitionResolves(i, text)
  \/ \E i \in 1..MaxInFlight : RecognitionRejects(i)

StrokeSpec ==
  /\ NotebookInit
  /\ [][StrokeNext]_vars
  /\ WF_vars(\E i \in 1..(2 * MaxInFlight + 1) : DelayElapses(i))
  /\ WF_vars(\E i \in 1..(2 * MaxInFlight + 1) : DebouncedRecognition(i))
  /\ WF_vars(\E i \in 1..MaxInFlight :
               \/ RecognitionRejects(i)
               \/ \E text \in LatexTexts \cup {<<>>} :
                    RecognitionResolves(i, text))

\* ------------------------------------------------------------------------
\* The drawing canvas: MathDrawingCanvas in the step list of NotebookView
\* ------------------------------------------------------------------------

CanvasDebounceDelay == 300

\* onLatexChange of NotebookView:
\* prev.map(s => s.id === step.id ? { ...s, latex } : s)
LatexSet(list, stepId, text) ==
  [i \in 1..Len(list) |->
     IF list[i].id = stepId THEN [list[i] EXCEPT !.latex = text] ELSE list[i]]

\* NotebookView renders and hands every MathDrawingCanvas an onLatexChange
\* that is a new function: recognizeStrokes and debouncedRecognize are made
\* anew (their dependencies changed), and the new debounced function holds
\* no timeout
Rendered(list) == [i \in 1..Len(list) |-> [list[i] EXCEPT !.held = FALSE]]

\* NotebookView is on the page with its first step
CanvasInit ==
  /\ pc = "idle"
  /\ entry = "none"
  /\ latex = <<>>
  /\ context = Undefined
  /\ solutionData = NoSolution
  /\ completion = NoCompletion
  /\ outcome = Pending
  /\ previous = NoResult
  /\ original = JNull
  /\ steps = <<NewStep(1)>>
  /\ history = <<>>
  /\ historyIndex = -1
  /\ restored = -1
  /\ validatingStep = 0
  /\ isLoading = FALSE
  /\ isDrawing = [id \in StepIds |-> FALSE]
  /\ currentStrokes = [id \in StepIds |-> 0]
  /\ stepStrokes = [id \in StepIds |-> 0]
  /\ timers = <<>>
  /\ recognizing = <<>>
  /\ validating = <<>>
  /\ trail = NoEvent
  /\ AppUntouched

\* startDrawing on the canvas of the step at position p
StartDrawing(p) ==
  /\ p \in 1..Len(steps)
  /\ \A id \in StepIds : ~isDrawing[id]
  /\ isDrawing' = [isDrawing EXCEPT ![steps[p].id] = TRUE]
  /\ currentStrokes' = [currentStrokes EXCEPT ![steps[p].id] = 1]
  /\ trail' = Unrecorded
  /\ UNCHANGED <<steps, history, historyIndex, restored, validatingStep,
                 isLoading, stepStrokes, timers, recognizing, validating>>
  /\ UNCHANGED <<serviceVars, appVars, recognitionVars>>

\* draw: one more point (the model counts to two)
Draw(p) ==
  /\ p \in 1..Len(steps)
  /\ isDrawing[steps[p].id]
  /\ currentStrokes[steps[p].id] < 2
  /\ currentStrokes' = [currentStrokes EXCEPT ![steps[p].id] = @ + 1]
  /\ trail' = Unrecorded
  /\ UNCHANGED <<steps, history, historyIndex, restored, validatingStep,
                 isLoading, isDrawing, stepStrokes, timers, recognizing,
                 validating>>
  /\ UNCHANGED <<serviceVars, appVars, recognitionVars>>

\* endDrawing: a stroke of two points or more is kept, told to NotebookView
\* (onStrokesChange, which sets its steps) and sent to the debounced
\* recognition; NotebookView renders
EndDrawing(p) ==
  /\ p \in 1..Len(steps)
  /\ isDrawing[steps[p].id]
  /\ currentStrokes[steps[p].id] >= 2 => stepStrokes[steps[p].id] < MaxStrokes
  /\ IF currentStrokes[steps[p].id] >= 2
     THEN /\ stepStrokes' = [stepStrokes EXCEPT ![steps[p].id] = @ + 1]
          /\ timers' =
               Rendered(Debounced(timers, "debouncedRecognize", steps[p].id,
                                  stepStrokes[steps[p].id] + 1,
                                  CanvasDebounceDelay))
     ELSE UNCHANGED <<stepStrokes, timers>>
  /\ isDrawing' = [isDrawing EXCEPT ![steps[p].id] = FALSE]
  /\ currentStrokes' = [currentStrokes EXCEPT ![steps[p].id] = 0]
  /\ trail' = Unrecorded
  /\ UNCHANGED <<steps, history, historyIndex, restored, validatingStep,
                 isLoading, recognizing, validating>>
  /\ UNCHANGED <<serviceVars, appVars, recognitionVars>>

\* the timeout of a debounced function runs: recognizeStrokes up to its
\* await
DebouncedRecognize(i) ==
  /\ i \in 1..Len(timers)
  /\ timers[i].fn = "debouncedRecognize"
  /\ timers[i].ready
  /\ timers[i].strokes # 0
  /\ Len(recognizing) < MaxInFlight
  /\ recognizing' =
       Append(recognizing, Call(timers[i].stepId, <<>>, timers[i].strokes, 0))
  /\ timers' = RemoveAt(timers, i)
  /\ trail' = Unrecorded
  /\ UNCHANGED <<steps, history, historyIndex, restored, validatingStep,
                 isLoading, isDrawing, currentStrokes, stepStrokes, validating>>
  /\ UNCHANGED <<serviceVars, appVars, recognitionVars>>

\* the Recognizer call i resolves with text: setLatex, onLatexChange (which
\* sets the steps of NotebookView); NotebookView renders
CanvasRecognitionResolves(i, text) ==
  /\ i \in 1..Len(recognizing)
  /\ steps' = LatexSet(steps, recognizing[i].stepId, text)
  /\ timers' = Rendered(timers)
  /\ recognizing' = Ended(recognizing, i)
  /\ trail' = Event("recognized", recognizing[i].stepId, text,
                    recognizing[i].overtaken, <<>>)
  /\ UNCHANGED <<history, historyIndex, restored, validatingStep, isLoading,
                 isDrawing, currentStrokes, stepStrokes, validating>>
  /\ UNCHANGED <<serviceVars, appVars, recognitionVars>>

\* the Recognizer call i rejects: the catch of recognizeStrokes logs the
\* error
CanvasRecognitionRejects(i) ==
  /\ i \in 1..Len(recognizing)
  /\ recognizing' = Ended(recognizing, i)
  /\ trail' = Event("recognition error", recognizing[i].stepId, <<>>,
                    recognizing[i].overtaken, <<>>)
  /\ UNCHANGED <<steps, history, historyIndex, restored, validatingStep,
                 isLoading, isDrawing, currentStrokes, stepStrokes, timers,
                 validating>>
  /\ UNCHANGED <<serviceVars, appVars, recognitionVars>>

CanvasNext ==
  \/ \E p \in 1..MaxNotebookSteps : StartDrawing(p)
  \/ \E p \in 1..MaxNotebookSteps : Draw(p)
  \/ \E p \in 1..MaxNotebookSteps : EndDrawing(p)
  \/ \E i \in 1..(2 * MaxInFlight + 1) : DelayElapses(i)
  \/ \E i \in 1..(2 * MaxInFlight + 1) : DebouncedRecognize(i)
  \/ \E i \in 1..MaxInFlight, text \in LatexTexts \cup {<<>>} :
       CanvasRecognitionResolves(i, text)
  \/ \E i \in 1..MaxInFlight : CanvasRecognitionRejects(i)

CanvasSpec == CanvasInit /\ [][CanvasNext]_vars

\* ------------------------------------------------------------------------
\* App: the list of notebooks, saved by handleSave of the canvas and deleted
\* from the dashboard
\* ------------------------------------------------------------------------

\* the most handleSave calls under way or followed by a redirect not yet run
MaxSaves == 2

\* the greatest value of Date.now()
MaxTime == 3

\* the values of Date.now()
Times == 1..MaxTime

\* the problem text of a notebook, empty at first
Problems == {<<>>, <<"a">>}

\* `Notebook ${new Date().toLocaleDateString()}`
DefaultTitle == <<"Notebook">>

\* what localStorage holds under 'math-notebooks' when App mounts
StoredNotebooks == {<<>>, <<Board(<<"1">>, <<"a">>)>>}

\* notebookData of handleSave at the time t
NotebookData(existingNotebook, problem, t) ==
  Board(IF existingNotebook.id # <<>> THEN existingNotebook.id
        ELSE NatToString(t),
        IF problem # <<>> THEN problem ELSE DefaultTitle)

\* enhancedNotebook of handleSaveNotebook at the time t
EnhancedNotebook(notebook, t) ==
  Board(IF notebook.id # <<>> THEN notebook.id ELSE NatToString(t),
        IF notebook.title # <<>> THEN notebook.title ELSE DefaultTitle)

\* prev.findIndex(n => n.id === id), from 0, -1 when there is none
FindIndex(prev, id) ==
  IF \E i \in 1..Len(prev) : prev[i].id = id
  THEN (CHOOSE i \in 1..Len(prev) :
          /\ prev[i].id = id
          /\ \A j \in 1..(i - 1) : prev[j].id # id) - 1
  ELSE -1

\* a save that appends whatever the list holds
AlwaysAppended(prev, enhancedNotebook) == Append(prev, enhancedNotebook)

\* the updater of setNotebooks in handleSaveNotebook
SavedNotebooks(prev, enhancedNotebook) ==
  IF FindIndex(prev, enhancedNotebook.id) >= 0
  THEN [prev EXCEPT ![FindIndex(prev, enhancedNotebook.id) + 1] = enhancedNotebook]
  ELSE Append(prev, enhancedNotebook)

\* the updater of setNotebooks in handleDeleteNotebook
DeletedNotebooks(prev, id) == SelectSeq(prev, LAMBDA n : n.id # id)

\* the canvas on the page goes: what its handleSave calls set later is lost
Unmounted(pending) == [i \in 1..Len(pending) |-> [pending[i] EXCEPT !.mounted = FALSE]]

\* App is on the page, with the notebooks of localStorage loaded
AppInit ==
  /\ pc = "idle"
  /\ entry = "none"
  /\ latex = <<>>
  /\ context = Undefined
  /\ solutionData = NoSolution
  /\ completion = NoCompletion
  /\ outcome = Pending
  /\ previous = NoResult
  /\ original = JNull
  /\ steps = <<>>
  /\ history = <<>>
  /\ historyIndex = -1
  /\ restored = -1
  /\ validatingStep = 0
  /\ isLoading = FALSE
  /\ isDrawing = [id \in StepIds |-> FALSE]
  /\ currentStrokes = [id \in StepIds |-> 0]
  /\ stepStrokes = [id \in StepIds |-> 0]
  /\ timers = <<>>
  /\ recognizing = <<>>
  /\ validating = <<>>
  /\ trail = NoEvent
  /\ notebooks \in StoredNotebooks
  /\ currentNotebook = NullNotebook
  /\ currentView = "landing"
  /\ isSaving = FALSE
  /\ saves = <<>>
  /\ redirects = 0
  /\ existingIndex = -1
  /\ RecognitionUnused

\* a click on "Start practicing" of the landing page
HandleStartPracticing ==
  /\ currentView = "landing"
  /\ currentView' = "dashboard"
  /\ UNCHANGED <<notebooks, currentNotebook, isSaving, saves, redirects,
                 existingIndex>>
  /\ UNCHANGED <<serviceVars, notebookVars, recognitionVars>>

\* a click on "New notebook" of the dashboard: a canvas is put on the page
HandleNewNotebook ==
  /\ currentView = "dashboard"
  /\ currentNotebook' = NullNotebook
  /\ currentView' = "notebook"
  /\ isSaving' = FALSE
  /\ UNCHANGED <<notebooks, saves, redirects, existingIndex>>
  /\ UNCHANGED <<serviceVars, notebookVars, recognitionVars>>

\* a click on the notebook at position i of the dashboard
HandleOpenExistingNotebook(i) ==
  /\ currentView = "dashboard"
  /\ i <= Len(notebooks)
  /\ currentNotebook' = notebooks[i]
  /\ currentView' = "notebook"
  /\ isSaving' = FALSE
  /\ UNCHANGED <<notebooks, saves, redirects, existingIndex>>
  /\ UNCHANGED <<serviceVars, notebookVars, recognitionVars>>

\* a click on the delete button of the notebook at position i of the dashboard
HandleDeleteNotebook(i) ==
  /\ currentView = "dashboard"
  /\ i <= Len(notebooks)
  /\ notebooks' = DeletedNotebooks(notebooks, notebooks[i].id)
  /\ UNCHANGED <<currentNotebook, currentView, isSaving, saves, redirects,
                 existingIndex>>
  /\ UNCHANGED <<serviceVars, notebookVars, recognitionVars>>

\* a click on "Save" of the canvas at the time t, the problem being as
\* given: handleSave runs to its await
HandleSave(t, problem) ==
  /\ currentView = "notebook"
  /\ ~isSaving
  /\ Len(saves) + redirects < MaxSaves
  /\ isSaving' = TRUE
  /\ saves' = Append(saves, [data |-> NotebookData(currentNotebook, problem, t),
                             mounted |-> TRUE])
  /\ UNCHANGED <<notebooks, currentNotebook, currentView, redirects,
                 existingIndex>>
  /\ UNCHANGED <<serviceVars, notebookVars, recognitionVars>>

\* the 1500 ms of the oldest handleSave are over, at the time t: onSave, that
\* is handleSaveNotebook, runs, the timeout of onBack is set, and isSaving of
\* the canvas is set back if that canvas is still on the page
SaveDelayElapses(t) ==
  /\ saves # <<>>
  /\ notebooks' = SavedNotebooks(notebooks, EnhancedNotebook(Head(saves).data, t))
  /\ existingIndex' = FindIndex(notebooks, EnhancedNotebook(Head(saves).data, t).id)
  /\ currentNotebook' = EnhancedNotebook(Head(saves).data, t)
  /\ redirects' = redirects + 1
  /\ isSaving' = (IF Head(saves).mounted THEN FALSE ELSE isSaving)
  /\ saves' = Tail(saves)
  /\ UNCHANGED currentView
  /\ UNCHANGED <<serviceVars, notebookVars, recognitionVars>>

\* a click on the back button of the canvas
OnBack ==
  /\ currentView = "notebook"
  /\ currentView' = "dashboard"
  /\ saves' = Unmounted(saves)
  /\ UNCHANGED <<notebooks, currentNotebook, isSaving, redirects, existingIndex>>
  /\ UNCHANGED <<serviceVars, notebookVars, recognitionVars>>

\* the 2000 ms after a save are over: onBack runs
RedirectElapses ==
  /\ redirects > 0
  /\ redirects' = redirects - 1
  /\ currentView' = "dashboard"
  /\ saves' = Unmounted(saves)
  /\ UNCHANGED <<notebooks, currentNotebook, isSaving, existingIndex>>
  /\ UNCHANGED <<serviceVars, notebookVars, recognitionVars>>

AppNext ==
  \/ HandleStartPracticing
  \/ HandleNewNotebook
  \/ \E i \in 1..(MaxTime + 1) : HandleOpenExistingNotebook(i)
  \/ \E i \in 1..(MaxTime + 1) : HandleDeleteNotebook(i)
  \/ \E t \in Times, problem \in Problems : HandleSave(t, problem)
  \/ \E t \in Times : SaveDelayElapses(t)
  \/ OnBack
  \/ RedirectElapses

AppSpec == AppInit /\ [][AppNext]_vars

\* ------------------------------------------------------------------------
\* Properties
\* ------------------------------------------------------------------------

\* the entry point e has run to its end
Settled(e) == pc = "settled" /\ entry = e

\* the awaited call of the entry point threw
CompletionFailed == CompletionThrows(completion)

\* C1: validateMathStep always resolves, and the confidence of its result
\* lies between 0 and 1 (0 and 100 hundredths), whatever the completion held.
C1_ConfidenceWithinBounds ==
  Settled("validateMathStep") =>
    /\ outcome.settled = "resolved"
    /\ outcome.value.confidence \in 0..100

\* C1, its case: a completion that states the confidence 2 has been parsed
\* and the result carries the confidence 1.
C1_ConfidenceClamped ==
  /\ Settled("validateMathStep")
  /\ completion.kind = "content"
  /\ includes(completion.text, WordConfidence \o <<Quote, ":", "2", "}">>)
  /\ outcome.settled = "resolved"
  /\ outcome.value.confidence = 100

DefaultSuggestionSets ==
  {ExcellentDefaults, GoodDefaults, ProgressDefaults, KeepGoingDefaults}

\* the text holds no suggestion: it has no array, or nothing but quotes,
\* commas and blanks between the array's brackets
NoSuggestionGiven(text) ==
  LET opens == {i \in 1..Len(text) : text[i] = "["}
      closes == {i \in 1..Len(text) : text[i] = "]"}
  IN \/ opens = {}
     \/ closes = {}
     \/ \A i \in opens, j \in closes :
          \A k \in (i + 1)..(j - 1) : text[k] \in {Quote, ",", " "}

\* C2: evaluateCompleteSolution resolves with a score between 0 and 100 and
\* a non-empty list of suggestions; when the response holds no suggestion,
\* the list is one of the default sets.
C2_ScoreAndSuggestions ==
  Settled("evaluateCompleteSolution") =>
    /\ outcome.settled = "resolved"
    /\ outcome.value.score \in 0..10000
    /\ outcome.value.suggestions # <<>>
    /\ (~CompletionFailed /\ NoSuggestionGiven(completion.text)
          => outcome.value.suggestions \in DefaultSuggestionSets)

\* C2, its case: a response with the score 120 and an empty array of
\* suggestions has been parsed; the score is 100 and the list a default set.
C2_DefaultsSubstituted ==
  /\ Settled("evaluateCompleteSolution")
  /\ completion.kind = "content"
  /\ includes(completion.text, <<"[", "]">>)
  /\ outcome.settled = "resolved"
  /\ outcome.value.score = 10000
  /\ outcome.value.suggestions = ExcellentDefaults

\* C3, as amended: when the Completion call fails, validateMathStep resolves
\* with a result of the Heuristic Validator if the latex is non-empty after
\* trimming its whitespace, and with the fixed result (isCorrect false,
\* confidence 0) otherwise.
C3_FailureFallsBackOnTrimmedLatex ==
  Settled("validateMathStep") /\ CompletionFailed =>
    /\ outcome.settled = "resolved"
    /\ IF trim(latex) # <<>>
       THEN \E rnd \in RandomValues :
              outcome.value = fallbackValidation(latex, rnd)
       ELSE /\ outcome.value = UnableToValidateResult
            /\ ~outcome.value.isCorrect
            /\ outcome.value.confidence = 0

\* C3, as stated: when the Completion call fails and the latex is non-empty,
\* the result is one of the Heuristic Validator; only the empty latex gets
\* the fixed result.
C3_FailureFallsBackOnNonEmptyLatex ==
  Settled("validateMathStep") /\ CompletionFailed =>
    /\ outcome.settled = "resolved"
    /\ IF latex # <<>>
       THEN \E rnd \in RandomValues :
              outcome.value = fallbackValidation(latex, rnd)
       ELSE outcome.value = UnableToValidateResult

\* C3, its case: the Completion call has failed on a latex of one blank and
\* validateMathStep has resolved with the fixed result.
C3_BlankLatexGetsFixedResult ==
  /\ Settled("validateMathStep")
  /\ CompletionFailed
  /\ latex = <<" ">>
  /\ outcome = Resolved(UnableToValidateResult)

\* C4: no entry point rejects; getStepHint resolves with its fixed fallback
\* string when the Completion call fails.
C4_NeverRejects ==
  pc = "settled" =>
    /\ outcome.settled = "resolved"
    /\ (entry = "getStepHint" /\ CompletionFailed
          => outcome.value = TryToReview)

\* C4, its case: the Completion call of getStepHint has rejected and the
\* hint is the fallback string.
C4_HintFallsBack ==
  /\ Settled("getStepHint")
  /\ completion = RejectedCompletion
  /\ outcome = Resolved(TryToReview)

\* the round-half-up of 100 * correct / total, stated without a division
NearestPercent(correct, total) ==
  CHOOSE n \in 0..100 :
    /\ 2 * total * n <= 200 * correct + total
    /\ 200 * correct + total < 2 * total * (n + 1)

\* the score the fallback evaluator is to give
ExpectedFallbackScore(correct, total) ==
  IF total = 0 THEN 0
  ELSE IF correct = total
    THEN (IF NearestPercent(correct, total) + 10 > 100 THEN 100
          ELSE NearestPercent(correct, total) + 10)
  ELSE NearestPercent(correct, total)

\* the steps of the solution under evaluation that are marked correct
MarkedCorrect ==
  Cardinality({i \in 1..Len(solutionData.steps) : solutionData.steps[i].isCorrect})

\* C9: when the Completion call fails, the score is the rounded percentage
\* of correct steps, plus 10 and capped at 100 when every step is correct;
\* it lies between 0 and 100, and between 60 and 70 for 2 correct steps of 3.
C9_FallbackScore ==
  Settled("evaluateCompleteSolution") /\ CompletionFailed =>
    /\ outcome.settled = "resolved"
    /\ outcome.value.score
         = 100 * ExpectedFallbackScore(MarkedCorrect, Len(solutionData.steps))
    /\ outcome.value.score \in 0..10000
    /\ (Len(solutionData.steps) = 3 /\ MarkedCorrect = 2
          => outcome.value.score \in 6000..7000)

\* C9, its case: the Completion call has failed on a solution of 3 steps, 2
\* of them correct, and the score is 67.
C9_TwoOfThree ==
  /\ Settled("evaluateCompleteSolution")
  /\ CompletionFailed
  /\ Len(solutionData.steps) = 3
  /\ MarkedCorrect = 2
  /\ outcome.settled = "resolved"
  /\ outcome.value.score = 6700

\* the validator has run twice on the step
RanTwice == previous # NoResult /\ outcome # NoResult

\* the pools a wording is drawn from
WordingPools ==
  {FoundXPool, CoefficientPool, MoveTermPool, ArithmeticPool, DivisionPool,
   VerificationPool, SubstitutionPool, GenericPool}

\* the pool of the rule category a written step falls in, where the shape of
\* the step tells the category (<<>> where it does not)
CategoryPool ==
  IF original.form = "check" /\ original.a = original.b THEN VerificationPool
  ELSE IF original.form = "check" THEN GenericPool
  ELSE IF original.form = "sum"
          /\ original.r = (IF original.op = "+" THEN original.a + original.b
                           ELSE original.a - original.b)
    THEN ArithmeticPool
  ELSE <<>>

\* C5: two runs of the Heuristic Validator on one latex agree on isCorrect
\* and on confidence; where their feedback differs, both wordings come from
\* one pool, and the wording comes from the pool of the category that
\* matched.
C5_SameVerdictEveryRun ==
  RanTwice =>
    /\ outcome.isCorrect = previous.isCorrect
    /\ outcome.confidence = previous.confidence
    /\ (CategoryPool # <<>> =>
          \E i \in 1..Len(CategoryPool) : CategoryPool[i] = outcome.feedback)
    /\ (outcome.feedback # previous.feedback =>
          \E pool \in WordingPools :
            \E i, j \in 1..Len(pool) :
              pool[i] = outcome.feedback /\ pool[j] = previous.feedback)

\* C5, its case: two runs on one latex gave two wordings.
C5_TwoWordings ==
  /\ RanTwice
  /\ outcome.feedback # previous.feedback
  /\ outcome.confidence = previous.confidence

\* the value of the left side of a step written a op b = r
RightValue(shape) ==
  IF shape.op = "+" THEN shape.a + shape.b ELSE shape.a - shape.b

\* the step is a op b = r with r other than the value of a op b
WrongArithmetic ==
  /\ original.form = "sum"
  /\ original.r # RightValue(original)
  /\ outcome # NoResult

\* C6, as amended: a step a op b = r whose r is wrong is not correct, and
\* the feedback states the right value; the result has no explanation.
C6_FeedbackStatesRightValue ==
  WrongArithmetic =>
    /\ ~outcome.isCorrect
    /\ includes(outcome.feedback,
                <<" = ">> \o IntToString(RightValue(original)) \o <<", not ">>
                  \o NatToString(original.r))
    /\ outcome.explanation = Undefined

\* C6, as stated: a step a op b = r whose r is wrong is not correct, and
\* comes with an explanation that states the right value.
C6_ExplanationStatesRightValue ==
  WrongArithmetic =>
    /\ ~outcome.isCorrect
    /\ outcome.explanation # Undefined
    /\ includes(outcome.explanation, IntToString(RightValue(original)))

\* C6, its case: the validator has run on 5 + 3 = 9 and said 8.
C6_FivePlusThreeIsNine ==
  /\ latex = <<"5", " ", "+", " ", "3", " ", "=", " ", "9">>
  /\ WrongArithmetic
  /\ ~outcome.isCorrect
  /\ includes(outcome.feedback, <<" = ", "8", ", not ", "9">>)

\* C7: a step ax = b + c is flagged by the mistake detector, with the
\* explanation of the sign flip, and no acceptance rule approves it.
C7_SignErrorFlaggedFirst ==
  original.form = "moved" /\ outcome # NoResult =>
    /\ ~outcome.isCorrect
    /\ outcome.explanation = SignExplanation
    /\ includes(outcome.feedback, <<"Check signs: when moving ">>)

\* C7, its case: the validator has run on 2x = 11 + 3 and flagged it.
C7_TwoXIsElevenPlusThree ==
  /\ latex = <<"2", "x", " ", "=", " ", "1", "1", " ", "+", " ", "3">>
  /\ original.form = "moved"
  /\ ~outcome.isCorrect
  /\ outcome.explanation = SignExplanation

\* C8: a step N = N is accepted with a confidence of 0.9 at the least.
C8_VerificationAccepted ==
  original.form = "check" /\ original.a = original.b /\ outcome # NoResult =>
    /\ outcome.isCorrect
    /\ outcome.confidence >= 90

\* C8, its case: the validator has run on 11 = 11 and accepted it.
C8_ElevenIsEleven ==
  /\ latex = <<"1", "1", " ", "=", " ", "1", "1">>
  /\ original.form = "check"
  /\ outcome.isCorrect
  /\ outcome.confidence = 95

\* C10: the normalizer recovers, from a well-formed JSON object wrapped in a
\* code fence or in prose, an object equal to the one that was written out,
\* escaped quotes, braces and commas inside its strings included.
C10_RoundTrip ==
  pc = "normalized" =>
    /\ outcome.found
    /\ outcome.ok
    /\ outcome.val = original

\* what the normalizer recovers from the response of the call under way
Recovered == StrictParse(completion.text)

\* the response of validateMathStep's call normalized to an object
NormalizedToObject ==
  /\ Settled("validateMathStep")
  /\ ~CompletionFailed
  /\ Recovered.found
  /\ Recovered.ok
  /\ Recovered.val.t = "obj"

\* the response of validateMathStep's call gave no object
NormalizationFailed ==
  /\ Settled("validateMathStep")
  /\ ~CompletionFailed
  /\ ~(Recovered.found /\ Recovered.ok)

\* C11: when the response normalizes to an object with a numeric confidence
\* c, the confidence of the result is min(1, max(0, c)): 0 gives 0, and 0.5
\* stands in only for a confidence that is missing or no number.
C11_NumericConfidenceKept ==
  NormalizedToObject /\ Get(Recovered.val, WordConfidence).t = "num" =>
    outcome.value.confidence
      = (IF Get(Recovered.val, WordConfidence).v < 0 THEN 0
         ELSE IF Get(Recovered.val, WordConfidence).v > 100 THEN 100
         ELSE Get(Recovered.val, WordConfidence).v)

\* some positive word is in the text, whatever its case
HasPositiveWord(text) ==
  \E word \in {WordCorrect, WordValid, WordTrue} :
    includes(toLowerCase(text), word)

\* the first 200 code units of the text, and an ellipsis where it is longer
Excerpt(text) ==
  SubstringTo(text, 200)
    \o (IF UnitLength(text) > 200 THEN Ellipsis ELSE <<>>)

C13_UnusableOutputIsScanned ==
  NormalizationFailed =>
    /\ outcome.value.confidence \in {30, 80}
    /\ outcome.value.feedback = Excerpt(cleanFeedback(completion.text))
    /\ \A rnd \in RandomValues :
         outcome.value # fallbackValidation(latex, rnd)

\* C13, as stated: when the Completion call hands back a response that gives
\* no object, the result is one of the Heuristic Validator for the latex.
C13_UnusableOutputIsHeuristic ==
  NormalizationFailed /\ trim(latex) # <<>> =>
    \E rnd \in RandomValues : outcome.value = fallbackValidation(latex, rnd)

\* C13, its case: the response "Wrong sign." came back for the step
\* 5 + 3 = 9 and the result is not the arithmetic error of the Heuristic
\* Validator.
C13_ScannedNotHeuristic ==
  /\ NormalizationFailed
  /\ latex = <<"5", " ", "+", " ", "3", " ", "=", " ", "9">>
  /\ completion.text = <<"W", "r", "o", "n", "g", " ", "s", "i", "g", "n", ".">>
  /\ outcome.value.confidence = 30
  /\ outcome.value.feedback[1] = ":cross_mark:"

\* C14: every RecognitionResult the Recognizer resolves with has a
\* confidence between 0 and 1, whatever confidence the provider returned.
C14_RecognitionConfidenceWithinBounds ==
  /\ pc = "settled"
  /\ entry \in {"recognizeWithMathpixCanvas", "recognizeStrokes"}
  /\ outcome.settled = "resolved"
  => outcome.value.confidence \in 0..100

\* C15: no call is held back or cancelled because of another one for the
\* same step.  Every Recognizer call that ends with a latex writes it to its
\* step, and every validation that ends writes its verdict to its step and
\* marks it checked, whether or not a call issued later for the same step has
\* ended before; so the step shows the result of the call that ended last.
C15_LastCompletionWins ==
  /\ (trail.event = "recognized" /\ trail.latex # <<>>
        /\ trail.stepId <= Len(steps))
       => /\ steps[trail.stepId].latex = trail.latex
          /\ steps[trail.stepId].status = "current"
  /\ trail.event = "validated"
       => \A i \in 1..Len(steps) :
            steps[i].id = trail.stepId
              => /\ steps[i].isChecked
                 /\ steps[i].validationResult.given
                 /\ steps[i].validationResult.of = trail.latex

\* C15, its case: a second Recognizer call for a step was issued while the
\* first was in flight, the second ended first, and the step now shows the
\* latex of the first, which ended last.
C15_EarlierCallEndedLast ==
  /\ trail.event = "recognized"
  /\ trail.overtaken
  /\ trail.latex # <<>>
  /\ steps[trail.stepId].latex = trail.latex

\* C16: a Recognizer call is issued only once the debounce delay has passed
\* since the last finished stroke, it is the one call of the burst, and it
\* carries the strokes as they are after the last stroke.
C16_OneCallAfterTheLastStroke ==
  [][\A i \in 1..Len(timers) :
       DebouncedRecognize(i)
         => /\ \A j \in 1..Len(timers) : timers[j].ready
            /\ Len(timers) = 1
            /\ timers[i].strokes = stepStrokes[timers[i].stepId]]_vars

\* C17: the step at list position i has id i.  (The list of the model counts
\* from 1: position 1 is the code's index 0.)
C17_IdIsPosition == \A i \in 1..Len(steps) : steps[i].id = i

\* C18: a step that is checked carries a verdict that was computed from the
\* latex it holds now.
C18_CheckedAgainstCurrentLatex ==
  \A i \in 1..Len(steps) :
    steps[i].isChecked
      => /\ steps[i].validationResult.given
         /\ steps[i].validationResult.of = steps[i].latex

\* C19: a step has status 'checking' only while a validateMathStep call for
\* it is in flight; with no call in flight validatingStep is null and
\* isLoading is false.
C19_CheckingOnlyWhileValidating ==
  /\ \A i \in 1..Len(steps) :
       steps[i].status = "checking"
         => \E j \in 1..Len(validating) : validating[j].stepId = steps[i].id
  /\ validating = <<>> => validatingStep = 0 /\ ~isLoading

\* C20: handleUndo followed at once by handleRedo leaves the steps as they
\* were before the undo, and historyIndex is an index of history.
C20_UndoThenRedoIsIdentity ==
  /\ (trail.event = "handleRedo" /\ trail.stepId = 1) => steps = trail.before
  /\ historyIndex \in 0..(Len(history) - 1)

\* C21: every finished stroke on a step is eventually covered by a Recognizer
\* call for that step.  A finished stroke shows as the timeout that
\* handlePointerUp sets with the strokes of the step; a call covers it when
\* it is for the same step and carries at least as many strokes.
C21_EveryStrokeIsRecognized ==
  \A id \in StepIds, n \in 1..MaxStrokes :
    (\E i \in 1..Len(timers) :
       /\ timers[i].fn = "debouncedRecognition"
       /\ timers[i].stepId = id
       /\ timers[i].strokes = n)
    ~> (\E j \in 1..Len(recognizing) :
          /\ recognizing[j].stepId = id
          /\ recognizing[j].strokes >= n)

\* the step on the board, as the rules see it
TrimmedLatex == trim(latex)

\* a mistake detector matches the step
MistakeDetected ==
  \/ TestFull(SignErrorRe, TrimmedLatex)
  \/ /\ TestFull(ArithmeticRe, TrimmedLatex)
     /\ ArithmeticGroups(TrimmedLatex).expected
          # parseInt(ArithmeticGroups(TrimmedLatex).result)

\* a known-good algebra shape matches the step
KnownGoodShape == isValidAlgebraStep(TrimmedLatex)

\* the three generic acceptance heuristics, in their order
GenericEquation ==
  /\ includes(TrimmedLatex, <<"=">>)
  /\ HasChar(TrimmedLatex, Digit \cup Letter)

GenericExpression ==
  /\ TrimmedLatex # <<>>
  /\ \/ HasChar(TrimmedLatex, Digit \cup Letter \cup {"/", SqrtSign})
     \/ includes(TrimmedLatex, BackslashFrac)
     \/ includes(TrimmedLatex, BackslashSqrt)

GenericStep == HasChar(TrimmedLatex, BasicOperationChars \cup Digit \cup Letter)

\* the feedback of the mistake detectors
MistakeFeedback(fb) ==
  \/ includes(fb, <<"Check signs: when moving ">>)
  \/ includes(fb, <<"Arithmetic error: ">>)

\* the feedback is one of the wordings of the known-good shapes
ShapeFeedback(fb) ==
  \E pool \in WordingPools : \E i \in 1..Len(pool) : pool[i] = fb

\* C22: the rules are tried in a fixed order and the first that matches
\* decides: a step a mistake detector matches gets the detector's rejection,
\* whatever acceptance rule matches it too; failing that, a step of a
\* known-good shape gets the feedback of the shapes; failing that, the first
\* generic heuristic that matches decides; failing that, the default reject.
C22_FirstMatchingRuleWins ==
  outcome # NoResult =>
    IF MistakeDetected
      THEN ~outcome.isCorrect /\ MistakeFeedback(outcome.feedback)
    ELSE IF KnownGoodShape
      THEN \E rnd \in RandomValues :
             outcome = getStepSpecificFeedback(TrimmedLatex, rnd)
    ELSE IF GenericEquation THEN outcome = ValidEquationResult
    ELSE IF GenericExpression THEN outcome = ValidExpressionResult
    ELSE IF GenericStep THEN outcome = GoodStepResult
    ELSE outcome = DefaultRejectResult

\* C22, its case: a step that a mistake detector, a known-good shape and a
\* generic heuristic all match has been rejected by the detector.
C22_MistakeBeatsAcceptance ==
  /\ MistakeDetected
  /\ KnownGoodShape
  /\ GenericEquation
  /\ outcome # NoResult
  /\ ~outcome.isCorrect
  /\ includes(outcome.feedback, <<"Arithmetic error: ">>)

\* C23: a step of a known-good shape that no mistake detector matches is
\* correct, and its feedback is a wording of the shapes' pools, never the
\* feedback of a generic acceptance heuristic.
C23_KnownGoodShapeAccepted ==
  outcome # NoResult /\ KnownGoodShape /\ ~MistakeDetected =>
    /\ outcome.isCorrect
    /\ ShapeFeedback(outcome.feedback)
    /\ outcome \notin {ValidEquationResult, ValidExpressionResult, GoodStepResult}

\* C23, its case: the validator has run on 2x + 3 = 11, a known-good shape
\* that the generic equation heuristic matches too.
C23_LinearEquationAccepted ==
  /\ latex = <<"2", "x", " ", "+", " ", "3", " ", "=", " ", "1", "1">>
  /\ KnownGoodShape /\ ~MistakeDetected /\ GenericEquation
  /\ outcome.isCorrect
  /\ ShapeFeedback(outcome.feedback)

\* the confidences the rules give
RuleConfidences == {30, 75, 80, 85, 90, 95}

\* C24: the validator gives a result for every step, and the result is the
\* default reject (not correct, confidence 0.3) exactly when no mistake
\* detector, known-good shape or generic heuristic matches the step, as is so
\* for the empty step.
C24_DefaultRejectWhenNothingMatches ==
  pc = "settled" =>
    /\ outcome # NoResult
    /\ outcome.isCorrect \in BOOLEAN
    /\ outcome.confidence \in RuleConfidences
    /\ (~outcome.isCorrect /\ outcome.confidence = 30)
         <=> ~(\/ MistakeDetected \/ KnownGoodShape \/ GenericEquation
               \/ GenericExpression \/ GenericStep)
    /\ (TrimmedLatex = <<>> => ~outcome.isCorrect /\ outcome.confidence = 30)

\* C24, its case: the validator has run on the empty step.
C24_EmptyStepRejected ==
  /\ pc = "settled"
  /\ latex = <<>>
  /\ ~outcome.isCorrect
  /\ outcome.confidence = 30
  /\ includes(outcome.feedback, <<"Write a complete equation.">>)

\* the step is a op b = c with c other than the value of a op b
WrongSum ==
  IF original.form = "sum" THEN original.r # RightValue(original)
  ELSE /\ TestFull(ArithmeticRe, TrimmedLatex)
       /\ ArithmeticGroups(TrimmedLatex).expected
            # parseInt(ArithmeticGroups(TrimmedLatex).result)

\* the step has no digit, no letter, none of + - * / ^ ( ) and no root sign
NothingMathematical ==
  ~HasChar(TrimmedLatex, Digit \cup Letter \cup BasicOperationChars \cup {SqrtSign})

\* C25: a step is not correct in three cases and no other: it reads
\* [digits][x] = N + M, it reads a + b = c or a - b = c with a wrong c, or it
\* has no digit, no letter, none of + - * / ^ ( ) and no root sign. So
\* 5 = 2 + 3 and x = 2 + 3 are not correct, and 11 = 12 is.
C25_ThreeWaysToBeWrong ==
  outcome # NoResult =>
    /\ ~outcome.isCorrect
         <=> \/ TestFull(SignErrorRe, TrimmedLatex)
             \/ WrongSum
             \/ NothingMathematical
    /\ (original.form = "moved" => ~outcome.isCorrect)
    /\ (original.form = "check" => outcome.isCorrect)
    /\ (latex \in {<<"5", " ", "=", " ", "2", " ", "+", " ", "3">>,
                   <<"x", " ", "=", " ", "2", " ", "+", " ", "3">>}
          => ~outcome.isCorrect)

\* C25, its case: the validator has run on 11 = 12 and accepted it.
C25_ElevenIsTwelve ==
  /\ latex = <<"1", "1", " ", "=", " ", "1", "2">>
  /\ outcome # NoResult
  /\ outcome.isCorrect
  /\ ~MistakeDetected

\* the response of evaluateCompleteSolution's call holds a body that parses
\* strictly to an object whose feedback is a string
EvaluationParsedStrictly ==
  /\ Settled("evaluateCompleteSolution")
  /\ ~CompletionFailed
  /\ Recovered.found
  /\ Recovered.ok
  /\ Recovered.val.t = "obj"
  /\ Get(Recovered.val, WordFeedback).t = "str"

\* C26: the strict parse of the extracted body comes first: an evaluation
\* whose body parses strictly has the score of the parsed object and, where
\* the parsed array holds suggestions, those suggestions, one for one.
C26_StrictlyParsedValuesReturned ==
  EvaluationParsedStrictly =>
    /\ outcome.value.score
         = Clamp(0, 10000, NumberOr(Get(Recovered.val, WordScore), 0))
    /\ (ParsedSuggestions(Recovered.val) # <<>> =>
          outcome.value.suggestions = ParsedSuggestions(Recovered.val))

\* the band a score falls in, by the thresholds of generateDefaultSuggestions
ScoreBand(score) ==
  IF score >= 9000 THEN "excellent"
  ELSE IF score >= 7000 THEN "good"
  ELSE IF score >= 5000 THEN "progress"
  ELSE "keep going"

\* the band a fallback feedback opens with
FeedbackBand(feedback) ==
  IF includes(feedback, <<"Excellent! ">>) THEN "excellent"
  ELSE IF includes(feedback, <<"Good! ">>) THEN "good"
  ELSE IF includes(feedback, <<"Progress! ">>) THEN "progress"
  ELSE "keep going"

\* the band the first of the fallback suggestions belongs to
SuggestionBand(suggestions) ==
  IF suggestions[1] = ExcellentBand[1] THEN "excellent"
  ELSE IF suggestions[1] = GoodBand[1] THEN "good"
  ELSE IF suggestions[1] = ProgressBand[1] THEN "progress"
  ELSE "keep going"

\* C27: when the Completion call fails, the feedback and the suggestions of
\* the evaluation are those of the band (90 and up, 70 and up, 50 and up,
\* below) in which the returned score falls, whatever the numbers of correct
\* steps and of steps.
C27_FeedbackBandIsScoreBand ==
  Settled("evaluateCompleteSolution") /\ CompletionFailed =>
    /\ FeedbackBand(outcome.value.feedback) = ScoreBand(outcome.value.score)
    /\ SuggestionBand(outcome.value.suggestions) = ScoreBand(outcome.value.score)

\* the default suggestions of a band
DefaultsOfBand(band) ==
  CASE band = "excellent" -> ExcellentDefaults
    [] band = "good" -> GoodDefaults
    [] band = "progress" -> ProgressDefaults
    [] OTHER -> KeepGoingDefaults

\* the response parsed to an object whose suggestions value is no array
SuggestionsNotAnArray ==
  /\ Recovered.found
  /\ Recovered.ok
  /\ Recovered.val.t = "obj"
  /\ Get(Recovered.val, WordSuggestions).t # "arr"

\* C28: when the Completion call succeeds, a suggestions value that is no
\* array is dropped, and where the response gives no suggestion the returned
\* suggestions are the default set of the band (90 and up, 70 and up, 50 and
\* up, below) in which the returned score falls.
C28_DefaultsOfTheScoreBand ==
  /\ Settled("evaluateCompleteSolution")
  /\ ~CompletionFailed
  /\ SuggestionsNotAnArray \/ NoSuggestionGiven(completion.text)
  => outcome.value.suggestions
       = DefaultsOfBand(ScoreBand(outcome.value.score))

\* C28, its case: a response with the score 95 and a string for suggestions
\* has been evaluated; the string is gone and the list is the default set of
\* the band of 90 and up.
C28_StringOfSuggestionsDropped ==
  /\ Settled("evaluateCompleteSolution")
  /\ ~CompletionFailed
  /\ SuggestionsNotAnArray
  /\ Get(Recovered.val, WordSuggestions).t = "str"
  /\ outcome.value.score = 9500
  /\ outcome.value.suggestions = ExcellentDefaults

\* the ids of the notebooks of a list
IdsOf(list) == {list[i].id : i \in 1..Len(list)}

\* no two notebooks of the list have one id
DistinctIds(list) ==
  \A i, j \in 1..Len(list) : list[i].id = list[j].id => i = j

\* the step is the end of a handleSave: the notebook of the oldest call is
\* handed to handleSaveNotebook
SaveStep == saves # <<>> /\ saves' = Tail(saves)

\* the step is a deletion from the dashboard
DeleteStep == Len(notebooks') < Len(notebooks)

\* C29: no two notebooks of the list have one id, whatever was saved and
\* deleted. A save of a notebook whose id is in the list puts it in the
\* place of the entry with that id and leaves the others and the length as
\* they were; a save of any other notebook appends one entry; a deletion
\* takes out the entries with one id and no other.
C29_NotebookIdsStayDistinct ==
  [][/\ DistinctIds(notebooks)
     /\ DistinctIds(notebooks')
     /\ SaveStep /\ Head(saves).data.id \in IdsOf(notebooks) =>
          /\ Len(notebooks') = Len(notebooks)
          /\ \A i \in 1..Len(notebooks) :
               IF notebooks[i].id = Head(saves).data.id
               THEN notebooks'[i] = Head(saves).data
               ELSE notebooks'[i] = notebooks[i]
     /\ SaveStep /\ Head(saves).data.id \notin IdsOf(notebooks) =>
          notebooks' = Append(notebooks, Head(saves).data)
     /\ DeleteStep =>
          \E id \in IdsOf(notebooks) :
            /\ id \notin IdsOf(notebooks')
            /\ notebooks' = SelectSeq(notebooks, LAMBDA n : n.id # id)
            /\ Len(notebooks') = Len(notebooks) - 1
     /\ ~SaveStep /\ ~DeleteStep => notebooks' = notebooks]_vars

\* C29, its case: a save has put a notebook in the place of the first of two
\* entries, the one with its id, and the list still holds two.
C29_SavedInPlace ==
  /\ existingIndex = 0
  /\ Len(notebooks) = 2
  /\ currentNotebook = notebooks[1]
  /\ notebooks[1].id # notebooks[2].id

\* the results of the local mock
MockResults == {AllResults[i] : i \in 1..Len(AllResults)}

\* recognizeDrawing has come to its end without a result of Mathpix: no
\* credentials are set, the test of the credentials failed, or the Mathpix
\* call threw
WithoutMathpixResult ==
  \/ ~mathpixCredentials
  \/ completion = NoCompletion
  \/ recognizeWithMathpixCanvas(completion).settled = "rejected"

====
